---- MODULE Spec2Model ----
(***************************************************************************)
(* Verification model of the hls.js network layer:                         *)
(*   - NetworkEngine            (src/src/network/network-engine.ts)        *)
(*   - PlaylistLoadingHandler   (src/unnamed/part_003)                     *)
(*   - KeyLoadingHandler        (src/unnamed/part_004)                     *)
(*   - FragmentLoadingHandler   (src/unnamed/part_002)                     *)
(*   - MediaFragmentReceiver    (src/unnamed/part_007)                     *)
(* Time is discrete: a timer holds the number of ticks left before it is   *)
(* due; a due timer (0 ticks left) runs its callback before time advances, *)
(* unless an event handler that runs first clears it.                      *)
(***************************************************************************)
EXTENDS Integers, Sequences, FiniteSets, TLC

VARIABLES
  engs,      \* heap of NetworkEngine instances, in creation order
  loaders,   \* PlaylistLoadingHandler.loaders : context type -> engine (0 = absent)
  kLoaders,  \* KeyLoadingHandler._loaders     : slot -> engine (0 = absent)
  fLoaders,  \* FragmentLoadingHandler._loaders : fragment type -> engine (0 = absent)
  keyUrl,    \* KeyLoadingHandler._keyUrl      ("" = null)
  keyData,   \* KeyLoadingHandler._keyData     ("" = null)
  frags,     \* the MediaFragment objects handed to the loaders and the receiver
  out,       \* events triggered on the hls bus by the last step
  threw,     \* error thrown to the caller of the last step ("" = none)
  op,        \* the last step: its name, the engine or fragment it was for, its input
             \* (for the end of a transfer: the status and the body received)
  rx,        \* the fields of the MediaFragmentReceiver
  segments,  \* the appends of parent 'main' the source buffer has not acknowledged,
             \* oldest first: TRUE for one of the current fragment load
  hls,       \* hls.config, and the load options of a direct client
  call       \* a call of a function of the playlist model: its arguments, its result

vars == <<engs, loaders, kLoaders, fLoaders, keyUrl, keyData, frags, out, threw, op, rx, segments, hls,
          call>>

----------------------------------------------------------------------------
(* Bounds of the model                                                     *)

MaxLoads == 2        \* load() calls per directly driven engine
MaxRetryCfg == 2     \* largest configured maxRetry
MaxDelayCfg == 2     \* largest configured retryDelay
MaxDelayCap == 3     \* largest configured maxRetryDelay
MaxTimeOut == 2      \* largest configured timeout, in ticks
MaxEngines == 3      \* engines a handler may create in one run
MaxChunks == 1       \* readystatechange events of one transfer while LOADING

Min(a, b) == IF a <= b THEN a ELSE b
Max(a, b) == IF a >= b THEN a ELSE b

\* HTTP statuses the server side may answer with (0 = network failure)
Statuses == {0, 200, 404, 499, 503}

NoTimer == -1
Undefined == -1

----------------------------------------------------------------------------
(* NetworkEngine                                                           *)

NoXhr == [exists |-> FALSE, rs |-> 0, live |-> FALSE, chunks |-> 0]
NoStats == [exists |-> FALSE, retry |-> 0, aborted |-> FALSE, lid |-> 0]
NoConfig == [timeout |-> 0, maxRetry |-> 0, retryDelay |-> 0, maxRetryDelay |-> 0]
\* backfilled: the byte ranges of the fragments were set from a segment index
NoDetails == [exists |-> FALSE, targetduration |-> 0, needSidxRanges |-> FALSE,
              backfilled |-> FALSE]
NoContext == [type |-> "", url |-> "", lid |-> 0, frag |-> 0,
              isSidxRequest |-> FALSE, levelDetails |-> NoDetails]

\* Observations kept per engine for the load in progress (not program state)
NoObs == [sends |-> 0, nSuccess |-> 0, nError |-> 0, nTimeout |-> 0,
          delays |-> <<>>, rejected |-> FALSE, aborted |-> FALSE,
          openFailed |-> FALSE, allRetryable |-> TRUE, late |-> FALSE]

\* new NetworkEngine(config)
NetworkEngine_constructor ==
  [xhr |-> NoXhr, requestTimeout |-> NoTimer, retryTimeout |-> NoTimer,
   retryDelay |-> 0, config |-> NoConfig, stats |-> NoStats,
   context |-> NoContext, callbacks |-> "none",
   inflight |-> 0, nLoads |-> 0, obs |-> NoObs]

\* result of an engine operation: the engine, the callback it invoked, the
\* error it threw
Res(en, cb, err) == [en |-> en, cb |-> cb, threw |-> err]

\* invocation of one of this._callbacks
Deliver(en, cb) ==
  LET o == en.obs
      late == o.late \/ o.aborted
  IN [en EXCEPT !.obs =
        CASE cb = "success" -> [o EXCEPT !.nSuccess = @ + 1, !.late = late]
          [] cb = "error"   -> [o EXCEPT !.nError = @ + 1, !.late = late]
          [] cb = "timeout" -> [o EXCEPT !.nTimeout = @ + 1, !.late = late]
          [] OTHER          -> o]

\* window.setTimeout(fn, delay): ticks left
SetTimeout(delay) == Max(delay, 0)

\* this._execRequest without the 'Request already ongoing' check
NetworkEngine_execRequest_unguarded(en, openOk) ==
  IF ~openOk
    THEN Res(Deliver([en EXCEPT !.xhr = [NoXhr EXCEPT !.exists = TRUE],
                                !.obs.openFailed = TRUE], "error"),
             "error", "")
    ELSE Res([en EXCEPT !.xhr = [exists |-> TRUE, rs |-> 1, live |-> TRUE, chunks |-> 0],
                        !.requestTimeout = SetTimeout(en.config.timeout),
                        !.inflight = @ + 1,
                        !.obs.sends = @ + 1],
             "none", "")

NetworkEngine_execRequest(en, openOk) ==
  IF en.xhr.exists
    THEN Res(en, "none", "Request already ongoing")
    ELSE IF ~openOk
      THEN \* xhr.open threw: onError, nothing is sent
           Res(Deliver([en EXCEPT !.xhr = [NoXhr EXCEPT !.exists = TRUE],
                                  !.obs.openFailed = TRUE], "error"),
               "error", "")
      ELSE Res([en EXCEPT !.xhr = [exists |-> TRUE, rs |-> 1, live |-> TRUE, chunks |-> 0],
                          !.requestTimeout = SetTimeout(en.config.timeout),
                          !.inflight = @ + 1,
                          !.obs.sends = @ + 1],
               "none", "")

NetworkEngine_load(en, context, config, callbacks, openOk) ==
  LET lid == en.nLoads + 1
      en1 == [en EXCEPT !.context = [context EXCEPT !.lid = lid],
                        !.config = config,
                        !.callbacks = callbacks,
                        !.stats = [exists |-> TRUE, retry |-> 0, aborted |-> FALSE, lid |-> lid],
                        !.retryDelay = config.retryDelay,
                        !.nLoads = lid,
                        !.obs = IF en.xhr.exists THEN [en.obs EXCEPT !.rejected = TRUE]
                                                 ELSE NoObs]
  IN NetworkEngine_execRequest(en1, openOk)

\* forgets the retry timer
ClearTimeouts_requestOnly(en) == [en EXCEPT !.requestTimeout = NoTimer]

\* window.clearTimeout of both timers at the end of abort()
ClearTimeouts(en) == [en EXCEPT !.requestTimeout = NoTimer, !.retryTimeout = NoTimer]

\* abort() where the test on the transfer fails (no transfer, or a transfer
\* that is DONE): only the two timers are cleared
NetworkEngine_abort_done(en) ==
  Res(ClearTimeouts([en EXCEPT !.obs.aborted = TRUE]), "none", "")

\* destroy() on an engine whose transfer is DONE or absent
NetworkEngine_destroy_done(en) ==
  LET r == NetworkEngine_abort_done(en)
  IN Res([r.en EXCEPT !.xhr = NoXhr], r.cb, "")

\* http status between 200 to 299 are all successful
IsSuccess(status) == status >= 200 /\ status < 300

\* gives up one retry late
NoRetryLeft_offByOne(retry, maxRetry, status) ==
  retry > maxRetry \/ (status >= 400 /\ status < 499)

\* the test that ends the retries: max nb of retries reached, or a status
\* taken for a client error
NoRetryLeft(retry, maxRetry, status) ==
  retry >= maxRetry \/ (status >= 400 /\ status < 499)

\* doubles without the cap
Backoff_uncapped(retryDelay, maxRetryDelay) == 2 * retryDelay

\* set exponential backoff
Backoff(retryDelay, maxRetryDelay) == Min(2 * retryDelay, maxRetryDelay)

\* leaves the timeout cleared while the transfer goes on
Rearm_not(en) == en

\* rearm timeout as xhr not finished yet
Rearm(en) == [en EXCEPT !.requestTimeout = SetTimeout(en.config.timeout)]

\* lets the handler run on an aborted request
IsAborted_never(stats) == FALSE

\* don't proceed if xhr has been aborted
IsAborted(stats) == stats.aborted

\* the handler bound to xhr.onreadystatechange, run with the transfer's
\* readyState and status
NetworkEngine_handleReadyStateChange(en, readyState, status) ==
  IF IsAborted(en.stats)
    THEN Res(en, "none", "")
    ELSE IF readyState >= 2
      THEN LET en1 == [en EXCEPT !.requestTimeout = NoTimer]
           IN IF readyState = 4
                THEN IF IsSuccess(status)
                       THEN Res(Deliver(en1, "success"), "success", "")
                       ELSE IF NoRetryLeft(en1.stats.retry, en1.config.maxRetry, status)
                         THEN Res(Deliver(en1, "error"), "error", "")
                         ELSE \* this.destroy() is the engine's own call here,
                              \* not a client's abort of the load; the
                              \* transfer is DONE (readyState 4), so abort()
                              \* skips xhr.abort()
                              LET d == NetworkEngine_destroy_done(en1)
                              IN Res([d.en EXCEPT
                                        !.retryTimeout = SetTimeout(en1.retryDelay),
                                        !.retryDelay = Backoff(en1.retryDelay, en1.config.maxRetryDelay),
                                        !.stats.retry = @ + 1,
                                        !.obs.aborted = en1.obs.aborted,
                                        !.obs.delays = Append(@, en1.retryDelay)],
                                     d.cb, d.threw)
                ELSE Res(Rearm(en1), "none", "")
      ELSE Res(en, "none", "")

NetworkEngine_handleTimeout(en) ==
  Res(Deliver(en, "timeout"), "timeout", "")

\* a status the retry policy is meant for: neither success nor a client error
Retryable(status) == ~(status >= 200 /\ status < 300) /\ ~(status >= 400 /\ status <= 499)

\* the browser moves the transfer to readyState rs and fires readystatechange
XhrEvent(en, rs, status) ==
  LET en1 == [en EXCEPT !.xhr.rs = rs,
                        !.xhr.live = (rs # 4),
                        !.xhr.chunks = IF rs = 3 THEN @ + 1 ELSE @,
                        !.inflight = IF rs = 4 THEN @ - 1 ELSE @,
                        !.obs.allRetryable = IF rs = 4 THEN @ /\ Retryable(status) ELSE @]
  IN NetworkEngine_handleReadyStateChange(en1, rs, status)

NetworkEngine_abort(en) ==
  LET xhr == en.xhr
      e0 == [en EXCEPT !.obs.aborted = TRUE]
  IN IF xhr.exists /\ xhr.rs # 4
       THEN IF ~en.stats.exists
              THEN Res(e0, "none", "TypeError")
              ELSE LET ea == [e0 EXCEPT !.stats.aborted = TRUE]
                       \* xhr.abort(): a transfer in flight fires
                       \* readystatechange (DONE) synchronously and is
                       \* then reset to UNSENT
                       rd == IF xhr.live
                               THEN XhrEvent(ea, 4, 0)
                               ELSE Res(ea, "none", "")
                   IN IF rd.threw # ""
                        THEN rd
                        ELSE Res(ClearTimeouts(IF rd.en.xhr.exists
                                   THEN [rd.en EXCEPT !.xhr.rs = 0, !.xhr.live = FALSE]
                                   ELSE rd.en),
                                 rd.cb, "")
       ELSE NetworkEngine_abort_done(en)

NetworkEngine_destroy(en) ==
  LET r == NetworkEngine_abort(en)
  IN IF r.threw # "" THEN r
     ELSE Res([r.en EXCEPT !.xhr = NoXhr], r.cb, "")

----------------------------------------------------------------------------
(* State predicates on engines                                             *)

\* a transfer, a request timeout or a retry is pending
Active(en) == (en.xhr.exists /\ en.xhr.live)
              \/ en.requestTimeout # NoTimer \/ en.retryTimeout # NoTimer

----------------------------------------------------------------------------
(* The state the handlers work on, threaded through their calls            *)

World == [engs |-> engs, loaders |-> loaders, kLoaders |-> kLoaders,
          fLoaders |-> fLoaders,
          keyUrl |-> keyUrl, keyData |-> keyData, frags |-> frags, rx |-> rx,
          segments |-> segments,
          out |-> <<>>, threw |-> ""]

\* hls.trigger(event, data)
Event(ev, ctype, details, fatal, reason) ==
  [ev |-> ev, ctype |-> ctype, details |-> details, fatal |-> fatal, reason |-> reason,
   frag |-> 0, levelDetails |-> NoDetails]

\* an event whose data carries the parsed playlist (details: levelDetails)
LoadedEvent(ev, ctype, levelDetails) ==
  [Event(ev, ctype, "", FALSE, "") EXCEPT !.levelDetails = levelDetails]

Trigger(w, event) == [w EXCEPT !.out = Append(@, event)]

\* an engine operation applied to engine e of the heap
OnEngine(w, e, r) ==
  [w EXCEPT !.engs[e] = r.en,
            !.threw = IF r.threw # "" THEN r.threw ELSE @]

----------------------------------------------------------------------------
(* PlaylistLoadingHandler                                                  *)

ContextTypes == {"manifest", "level", "audioTrack", "subtitleTrack"}
Urls == {"u1", "u2"}
SidxUrl == "init"     \* levelDetails.initSegment.url

\* Response bodies, by what the checks and the parser make of them
Body(extm3u, media, nLevels, targetduration, needSidxRanges) ==
  [extm3u |-> extm3u, media |-> media, nLevels |-> nLevels,
   targetduration |-> targetduration, needSidxRanges |-> needSidxRanges]
NoBody == Body(FALSE, FALSE, 0, 0, FALSE)
Bodies == { NoBody,                          \* no #EXTM3U at offset 0
            Body(TRUE, FALSE, 1, 0, FALSE),  \* master playlist
            Body(TRUE, FALSE, 0, 0, FALSE),  \* master playlist without variant
            Body(TRUE, TRUE, 0, 1, FALSE),   \* media playlist
            Body(TRUE, TRUE, 0, 0, FALSE),   \* media playlist, no target duration
            Body(TRUE, TRUE, 0, 1, TRUE),    \* media playlist indexed by a sidx box
            Body(TRUE, TRUE, 0, 0, TRUE) }

PlaylistLoadingHandler_canHaveQualityLevels(type) ==
  type # "audioTrack" /\ type # "subtitleTrack"

PlaylistLoadingHandler_getInternalLoader(w, context) == w.loaders[context.type]

PlaylistLoadingHandler_resetInternalLoader(w, contextType) ==
  [w EXCEPT !.loaders[contextType] = 0]

PlaylistLoadingHandler_createInternalLoader(w, context) ==
  [w EXCEPT !.engs = Append(@, NetworkEngine_constructor),
            !.loaders[context.type] = Len(w.engs) + 1]

PlaylistLoadingHandler_handleManifestParsingError(w, context, reason) ==
  Trigger(w, Event("ERROR", context.type, "manifestParsingError", TRUE, reason))

\* the fatal flag _handleNetworkError gives an error of a context type
NetworkErrorFatal_always(type) == TRUE

NetworkErrorFatal(type) == type = "manifest"

PlaylistLoadingHandler_handleNetworkError(w, context, timeout) ==
  LET loader == PlaylistLoadingHandler_getInternalLoader(w, context)
      details ==
        CASE context.type = "manifest" ->
               IF timeout THEN "manifestLoadTimeOut" ELSE "manifestLoadError"
          [] context.type = "level" ->
               IF timeout THEN "levelLoadTimeOut" ELSE "levelLoadError"
          [] context.type = "audioTrack" ->
               IF timeout THEN "audioTrackLoadTimeOut" ELSE "audioTrackLoadError"
          [] OTHER -> "undefined"
      fatal == NetworkErrorFatal(context.type)
      w1 == IF loader # 0
              THEN PlaylistLoadingHandler_resetInternalLoader(
                     OnEngine(w, loader, NetworkEngine_abort(w.engs[loader])),
                     context.type)
              ELSE w
  IN IF loader = 0
       THEN [w1 EXCEPT !.threw = "TypeError"]   \* loader.context.url
       ELSE Trigger(w1, Event("ERROR", context.type, details, fatal, ""))

PlaylistLoadingHandler_loaderror(w, context) ==
  PlaylistLoadingHandler_handleNetworkError(w, context, FALSE)

PlaylistLoadingHandler_loadtimeout(w, context) ==
  PlaylistLoadingHandler_handleNetworkError(w, context, TRUE)

\* starts the new request next to the previous one
AbortPreviousLoader_not(w, loader) == w

\* aborting previous loader for the context type
AbortPreviousLoader(w, loader) ==
  OnEngine(w, loader, NetworkEngine_abort(w.engs[loader]))

PlaylistLoadingHandler_load(w, url, context, openOk) ==
  LET loader == PlaylistLoadingHandler_getInternalLoader(w, context)
      sameUrl == loader # 0 /\ w.engs[loader].nLoads > 0
                 /\ w.engs[loader].context.url = url
      w1 == IF loader # 0
              THEN AbortPreviousLoader(w, loader)
              ELSE w
      loaderConfig ==
        CASE context.type = "manifest" ->
               [timeout |-> hls.manifestLoadingTimeOut,
                maxRetry |-> hls.manifestLoadingMaxRetry,
                retryDelay |-> hls.manifestLoadingRetryDelay,
                maxRetryDelay |-> hls.manifestLoadingMaxRetryTimeout]
          [] context.type = "level" ->
               [timeout |-> hls.levelLoadingTimeOut,
                maxRetry |-> 0,
                retryDelay |-> Undefined,
                maxRetryDelay |-> Undefined]
          [] OTHER ->
               [timeout |-> hls.levelLoadingTimeOut,
                maxRetry |-> hls.levelLoadingMaxRetry,
                retryDelay |-> hls.levelLoadingRetryDelay,
                maxRetryDelay |-> hls.levelLoadingMaxRetryTimeout]
      w2 == PlaylistLoadingHandler_createInternalLoader(w1, context)
      id == w2.loaders[context.type]
      context2 == [context EXCEPT !.url = url]
      r == NetworkEngine_load(w2.engs[id], context2, loaderConfig, "playlist", openOk)
      w3 == OnEngine(w2, id, r)
  IN IF sameUrl
       THEN w      \* same URL can't overlap
       ELSE IF r.cb = "error"
              THEN PlaylistLoadingHandler_loaderror(w3, r.en.context)
              ELSE w3

\* if (!levelDetails.targetduration)
InvalidTargetDuration_never(levelDetails) == FALSE

InvalidTargetDuration(levelDetails) == levelDetails.targetduration = 0

PlaylistLoadingHandler_handlePlaylistLoaded(w, context) ==
  IF InvalidTargetDuration(context.levelDetails)
    THEN PlaylistLoadingHandler_handleManifestParsingError(w, context, "invalid target duration")
    ELSE IF PlaylistLoadingHandler_canHaveQualityLevels(context.type)
      THEN Trigger(w, LoadedEvent("LEVEL_LOADED", context.type, context.levelDetails))
      ELSE IF context.type = "audioTrack"
        THEN Trigger(w, LoadedEvent("AUDIO_TRACK_LOADED", context.type, context.levelDetails))
        ELSE Trigger(w, LoadedEvent("SUBTITLE_TRACK_LOADED", context.type, context.levelDetails))

PlaylistLoadingHandler_handleMasterPlaylist(w, response, context) ==
  IF response.data.nLevels = 0
    THEN PlaylistLoadingHandler_handleManifestParsingError(w, context, "no level found in manifest")
    ELSE Trigger(w, Event("MANIFEST_LOADED", context.type, "", FALSE, ""))

PlaylistLoadingHandler_handleTrackOrLevelPlaylist(w, response, context, openOk) ==
  LET levelDetails == [exists |-> TRUE,
                       targetduration |-> response.data.targetduration,
                       needSidxRanges |-> response.data.needSidxRanges,
                       backfilled |-> FALSE]
      w1 == IF context.type = "manifest"
              THEN Trigger(w, LoadedEvent("MANIFEST_LOADED", context.type, levelDetails))
              ELSE w
  IN IF levelDetails.needSidxRanges
       THEN PlaylistLoadingHandler_load(w1, SidxUrl,
              [NoContext EXCEPT !.type = context.type, !.isSidxRequest = TRUE,
                                !.levelDetails = levelDetails],
              openOk)
       ELSE PlaylistLoadingHandler_handlePlaylistLoaded(w1,
              [context EXCEPT !.levelDetails = levelDetails])

\* sets frag.rawByteRange of the fragments and of the init segment from the
\* references of the segment index
PlaylistLoadingHandler_handleSidxRequest(context) ==
  [context EXCEPT !.levelDetails.backfilled = TRUE]

PlaylistLoadingHandler_loadsuccess(w, response, context, openOk) ==
  IF context.isSidxRequest
    THEN PlaylistLoadingHandler_handlePlaylistLoaded(w,
           PlaylistLoadingHandler_handleSidxRequest(context))
    ELSE LET w1 == PlaylistLoadingHandler_resetInternalLoader(w, context.type)
         IN IF ~response.data.extm3u
              THEN PlaylistLoadingHandler_handleManifestParsingError(w1, context, "no EXTM3U delimiter")
              ELSE IF response.data.media
                THEN PlaylistLoadingHandler_handleTrackOrLevelPlaylist(w1, response, context, openOk)
                ELSE PlaylistLoadingHandler_handleMasterPlaylist(w1, response, context)

----------------------------------------------------------------------------
(* KeyLoadingHandler                                                       *)

NFrags == 2                       \* fragment objects in a run
FragTypes == {"main", "audio"}    \* frag.type, the lane of a fragment
KeyUris == {"k1", "k2"}           \* decryptdata.uri
LoaderSlots == FragTypes \cup {"key"}

KeyEvent(ev, f, details) ==
  [Event(ev, "key", details, FALSE, "") EXCEPT !.frag = f]

KeyLoadingHandler_handleSuccess(w, response, context) ==
  LET f == context.frag
  IN Trigger([w EXCEPT !.keyData = response.data,
                       !.frags[f].key = response.data,
                       !.frags[f].loader = 0,
                       !.kLoaders[w.frags[f].type] = 0],
             KeyEvent("KEY_LOADED", f, ""))

KeyLoadingHandler_handleError(w, context) ==
  LET f == context.frag
      loader == w.frags[f].loader
      w1 == IF loader # 0
              THEN OnEngine(w, loader, NetworkEngine_abort(w.engs[loader]))
              ELSE w
  IN Trigger([w1 EXCEPT !.kLoaders[context.type] = 0],
             KeyEvent("ERROR", f, "keyLoadError"))

KeyLoadingHandler_handleTimeout(w, context) ==
  LET f == context.frag
      loader == w.frags[f].loader
      w1 == IF loader # 0
              THEN OnEngine(w, loader, NetworkEngine_abort(w.engs[loader]))
              ELSE w
  IN Trigger([w1 EXCEPT !.kLoaders[context.type] = 0],
             KeyEvent("ERROR", f, "keyLoadTimeOut"))

\* fetches whatever the cache holds
MustFetch_always(uri, cachedUrl, cachedData) == TRUE

\* if uri is different from previous one or if decrypt key not retrieved yet
MustFetch(uri, cachedUrl, cachedData) == uri # cachedUrl \/ cachedData = ""

\* leaves the previous key request of the lane running
AbortPreviousKeyLoader_not(w, loader) == w

\* abort previous key loader for type
AbortPreviousKeyLoader(w, loader) ==
  OnEngine(w, loader, NetworkEngine_abort(w.engs[loader]))

KeyLoadingHandler_onKeyLoading(w, f, openOk) ==
  LET frag == w.frags[f]
      type == frag.type
      loader == w.kLoaders[type]
      uri == frag.uri
      w1 == IF loader # 0
              THEN AbortPreviousKeyLoader(w, loader)
              ELSE w
      id == Len(w1.engs) + 1
      w2 == [w1 EXCEPT !.engs = Append(@, NetworkEngine_constructor),
                       !.frags[f].loader = id,
                       !.kLoaders[type] = id,
                       !.keyUrl = uri,
                       !.keyData = ""]
      loaderContext == [NoContext EXCEPT !.type = "key", !.url = uri, !.frag = f]
      loaderConfig == [timeout |-> hls.fragLoadingTimeOut,
                       maxRetry |-> 0,
                       retryDelay |-> hls.fragLoadingRetryDelay,
                       maxRetryDelay |-> hls.fragLoadingMaxRetryTimeout]
      r == NetworkEngine_load(w2.engs[id], loaderContext, loaderConfig, "key", openOk)
      w3 == OnEngine(w2, id, r)
  IN IF MustFetch(uri, w.keyUrl, w.keyData)
       THEN IF r.cb = "error"
              THEN KeyLoadingHandler_handleError(w3, r.en.context)
              ELSE w3
       ELSE \* we already loaded this key, return it
            Trigger([w EXCEPT !.frags[f].key = w.keyData],
                    KeyEvent("KEY_LOADED", f, ""))

----------------------------------------------------------------------------
(* FragmentLoadingHandler                                                  *)

FragEvent(ev, f, details) ==
  [Event(ev, "mediaFragment", details, FALSE, "") EXCEPT !.frag = f]

FragmentLoadingHandler_handleSuccess(w, response, context) ==
  LET f == context.frag
  IN Trigger([w EXCEPT !.frags[f].loader = 0,
                       !.fLoaders[w.frags[f].type] = 0],
             FragEvent("FRAG_LOADED", f, ""))

FragmentLoadingHandler_handleError(w, context) ==
  LET f == context.frag
      loader == w.frags[f].loader
      w1 == IF loader # 0
              THEN OnEngine(w, loader, NetworkEngine_abort(w.engs[loader]))
              ELSE w
  IN Trigger([w1 EXCEPT !.fLoaders[w.frags[f].type] = 0],
             FragEvent("ERROR", f, "fragLoadError"))

FragmentLoadingHandler_handleTimeout(w, context) ==
  LET f == context.frag
      loader == w.frags[f].loader
      w1 == IF loader # 0
              THEN OnEngine(w, loader, NetworkEngine_abort(w.engs[loader]))
              ELSE w
  IN Trigger([w1 EXCEPT !.fLoaders[w.frags[f].type] = 0],
             FragEvent("ERROR", f, "fragLoadTimeOut"))

\* starts the new fragment load next to the previous one
AbortPreviousFragLoader_not(w, loader) == w

\* abort previous fragment loader for type
AbortPreviousFragLoader(w, loader) ==
  OnEngine(w, loader, NetworkEngine_abort(w.engs[loader]))

FragmentLoadingHandler_onFragLoading(w, f, openOk) ==
  LET type == w.frags[f].type
      loader == w.fLoaders[type]
      w1 == IF loader # 0
              THEN AbortPreviousFragLoader(w, loader)
              ELSE w
      id == Len(w1.engs) + 1
      w2 == [w1 EXCEPT !.engs = Append(@, NetworkEngine_constructor),
                       !.frags[f].loader = id,
                       !.fLoaders[type] = id]
      loaderContext == [NoContext EXCEPT !.type = "mediaFragment",
                                         !.url = "frag", !.frag = f]
      loaderConfig == [timeout |-> hls.fragLoadingTimeOut,
                       maxRetry |-> 0,
                       retryDelay |-> 0,
                       maxRetryDelay |-> hls.fragLoadingMaxRetryTimeout]
      r == NetworkEngine_load(w2.engs[id], loaderContext, loaderConfig, "frag", openOk)
      w3 == OnEngine(w2, id, r)
  IN IF r.cb = "error"
       THEN FragmentLoadingHandler_handleError(w3, r.en.context)
       ELSE w3

----------------------------------------------------------------------------
(* MediaFragmentReceiver: the fragment delivery state machine              *)
(* A field the class never assigns holds what its owner put there; a field *)
(* nobody assigned is undefined: FALSE for a flag or an object reference,  *)
(* 0 for a fragment reference, Undefined for a number.                     *)

MediaFragmentReceiverState ==
  {"STOPPED", "IDLE", "KEY_LOADING", "FRAG_LOADING", "FRAG_LOADING_WAITING_RETRY",
   "WAITING_LEVEL", "PARSING", "PARSED", "BUFFER_FLUSHING", "ENDED", "ERROR"}

\* the events the constructor registers the receiver for
ReceiverEvents ==
  {"FRAG_LOADED", "FRAG_LOAD_EMERGENCY_ABORTED", "FRAG_PARSING_INIT_SEGMENT",
   "FRAG_PARSING_DATA", "FRAG_PARSED", "BUFFER_CREATED", "BUFFER_APPENDED",
   "BUFFER_FLUSHED"}

\* levels[level].details.startSN of the playlist the fragments belong to
StartSN == 1

\* sn of the initialisation segment of a level
InitSegmentSN == -1

\* new MediaFragmentReceiver(hls): only stallReported and state are assigned;
\* the construction of the fragment tracker is commented out
MediaFragmentReceiver_constructor ==
  [state |-> "STOPPED", stallReported |-> FALSE,
   fragmentTracker |-> FALSE, tracked |-> {},
   pendingBuffering |-> FALSE, appended |-> FALSE,
   fragCurrent |-> 0, fragPrevious |-> 0,
   bitrateTest |-> FALSE, startFragRequested |-> FALSE,
   fragLoadError |-> Undefined, nextLoadPosition |-> Undefined,
   startPosition |-> Undefined, loadedmetadata |-> FALSE,
   media |-> FALSE, mediaBuffer |-> FALSE, altAudio |-> FALSE,
   nextLoadLevel |-> 0,
   stats |-> 0]     \* the fragment whose load statistics are stored (0: none)

\* an exception leaves the handler: nothing after the throwing statement runs
RxThrow(w, err) == [w EXCEPT !.threw = err]

\* tick(): any { throw new Error("Method not implemented.") }
MediaFragmentReceiver_tick(w) == RxThrow(w, "Error: Method not implemented.")

\* _getAudioCodec(currentLevel): any { throw new Error("Method not implemented.") }
MediaFragmentReceiver_getAudioCodec(w) == RxThrow(w, "Error: Method not implemented.")

\* this.fragmentTracker.<method>(...) on the receiver's tracker field
TrackerCall(w, tracked) ==
  IF w.rx.fragmentTracker
  THEN [w EXCEPT !.rx.tracked = tracked]
  ELSE RxThrow(w, "TypeError")

\* hls.trigger(event, {frag, id: 'main', ...}) of the receiver
RxEvent(ev, f, content) ==
  [Event(ev, "main", content, FALSE, "") EXCEPT !.frag = f]

\* hls.trigger(Event.BUFFER_APPENDING, {parent: 'main', ...}): the segment
\* waits in the source buffer's queue until BUFFER_APPENDED acknowledges it
TriggerAppending(w, f, content) ==
  [Trigger(w, RxEvent("BUFFER_APPENDING", f, content)) EXCEPT
     !.segments = Append(@, TRUE),
     !.rx.appended = TRUE,
     !.rx.pendingBuffering = TRUE]

\* this.state === State.PARSED && (!this.appended || !this.pendingBuffering)
AllAppended_ignoringPending(r) == r.state = "PARSED"

AllAppended(r) == r.state = "PARSED" /\ (~r.appended \/ ~r.pendingBuffering)

\* this.fragPrevious = frag
BufferedFragment_stale(r) == r.fragPrevious

BufferedFragment(r) == r.fragCurrent

MediaFragmentReceiver_checkAppendedParsed(w) ==
  LET r == w.rx IN
  IF AllAppended(r)
  THEN IF r.fragCurrent # 0
       THEN IF ~(r.mediaBuffer \/ r.media)
            THEN RxThrow(w, "TypeError")   \* media.buffered of undefined
            ELSE MediaFragmentReceiver_tick(
                   [Trigger([w EXCEPT !.rx.fragPrevious = BufferedFragment(r)],
                            RxEvent("FRAG_BUFFERED", r.fragCurrent, ""))
                      EXCEPT !.rx.state = "IDLE"])
       ELSE MediaFragmentReceiver_tick(w)
  ELSE w

\* alternate: some track is not of id 'main'; mediaTrack: some track is
MediaFragmentReceiver_onBufferCreated(w, alternate, mediaTrack) ==
  [w EXCEPT !.rx.mediaBuffer = IF alternate /\ mediaTrack THEN TRUE ELSE w.rx.media]

MediaFragmentReceiver_onBufferAppended(w, parent, pending) ==
  IF parent = "main" /\ w.rx.state \in {"PARSING", "PARSED"}
  THEN MediaFragmentReceiver_checkAppendedParsed(
         [w EXCEPT !.rx.pendingBuffering = (pending > 0)])
  ELSE w

\* evicted: the tracked fragments the buffered ranges no longer cover
MediaFragmentReceiver_onBufferFlushed(w, evicted) ==
  LET w1 == IF w.rx.mediaBuffer \/ w.rx.media
            THEN TrackerCall(w, w.rx.tracked \ evicted)
            ELSE w
  IN  IF w1.threw # "" THEN w1
      ELSE [w1 EXCEPT !.rx.state = "IDLE", !.rx.fragPrevious = 0]

MediaFragmentReceiver_flushMainBuffer(w) ==
  Trigger([w EXCEPT !.rx.state = "BUFFER_FLUSHING"],
          RxEvent("BUFFER_FLUSHING", 0, IF w.rx.altAudio THEN "video" ELSE "null"))

\* the guard the fragment events share: the event is for the current fragment
IsCurrent_anyFragment(w, f) == w.rx.fragCurrent # 0

IsCurrent(w, f) ==
  /\ w.rx.fragCurrent # 0
  /\ w.frags[f].sn = w.frags[w.rx.fragCurrent].sn
  /\ w.frags[f].level = w.frags[w.rx.fragCurrent].level

\* fragLoaded.bitrateTest && hls.nextLoadLevel
SkipsParsing_anyProbe(frag, nextLoadLevel) == frag.bitrateTest

SkipsParsing(frag, nextLoadLevel) == frag.bitrateTest /\ nextLoadLevel # 0

MediaFragmentReceiver_onFragLoaded(w, f) ==
  LET r == w.rx
      fc == r.fragCurrent
  IN
  IF r.state = "FRAG_LOADING" /\ w.frags[f].type = "main" /\ IsCurrent(w, f)
  THEN LET w1 == [w EXCEPT !.rx.bitrateTest = FALSE, !.rx.stats = f] IN
       IF SkipsParsing(w.frags[f], r.nextLoadLevel)
       THEN MediaFragmentReceiver_tick(
              Trigger([w1 EXCEPT !.rx.state = "IDLE", !.rx.startFragRequested = FALSE],
                      RxEvent("FRAG_BUFFERED", fc, "")))
       ELSE IF w.frags[f].sn = InitSegmentSN
       THEN MediaFragmentReceiver_tick(
              Trigger([w1 EXCEPT !.rx.state = "IDLE"], RxEvent("FRAG_BUFFERED", fc, "")))
       ELSE LET w2 == [w1 EXCEPT !.rx.state = "PARSING",
                                 !.rx.pendingBuffering = TRUE,
                                 !.rx.appended = FALSE]
                w3 == IF w.frags[f].bitrateTest
                      THEN TrackerCall([w2 EXCEPT !.frags[f].bitrateTest = FALSE],
                                       r.tracked \cup {f})
                      ELSE w2
                w4 == IF w3.threw # "" THEN w3 ELSE MediaFragmentReceiver_getAudioCodec(w3)
            IN  IF w4.threw # "" THEN w4
                ELSE Trigger(w4, RxEvent("demuxer.push", fc, "payload"))
  ELSE [w EXCEPT !.rx.fragLoadError = 0]

\* tracks: the names of the tracks of the init segment event
MediaFragmentReceiver_onFragParsingInitSegment(w, f, id, tracks) ==
  IF id = "main" /\ IsCurrent(w, f) /\ w.rx.state = "PARSING"
  THEN LET kept == IF w.rx.altAudio THEN tracks \ {"audio"} ELSE tracks
           w1 == Trigger(w, RxEvent("BUFFER_CODECS", f, ""))
           w2 == IF "audio" \in kept
                 THEN TriggerAppending(w1, f, "initSegment")
                 ELSE w1
           w3 == IF "video" \in kept
                 THEN TriggerAppending(w2, f, "initSegment")
                 ELSE w2
       IN  MediaFragmentReceiver_tick(w3)
  ELSE w

\* the two buffers data1 and data2 of a FRAG_PARSING_DATA event
DataBuffers == 2

\* the tail of onFragParsingData: nonEmpty of data1, data2 hold bytes
AppendParsedData(w, nonEmpty) ==
  LET fc == w.rx.fragCurrent
      w1 == Trigger(w, RxEvent("LEVEL_PTS_UPDATED", fc, ""))
      w2 == IF nonEmpty >= 1 /\ w1.rx.state = "PARSING"
            THEN TriggerAppending(w1, fc, "data")
            ELSE w1
      w3 == IF nonEmpty >= DataBuffers /\ w2.rx.state = "PARSING"
            THEN TriggerAppending(w2, fc, "data")
            ELSE w2
  IN  MediaFragmentReceiver_tick(w3)

\* the fragment of a dropped-frame report is re-requested unless it is the
\* first one of the playlist
MustBacktrack(sn) == sn # StartSN

\* if (!frag.backtracked): a fragment is backtracked once
NotYetBacktracked_always(frag) == TRUE

NotYetBacktracked(frag) == ~frag.backtracked

MediaFragmentReceiver_onFragParsingData(w, f, id, type, dropped, startPTS, nonEmpty) ==
  LET r == w.rx
      fc == r.fragCurrent
  IN
  IF /\ id = "main"
     /\ IsCurrent(w, f)
     /\ ~(type = "audio" /\ r.altAudio)
     /\ r.state = "PARSING"
  THEN IF type = "video"
       THEN LET w1 == [w EXCEPT !.frags[fc].dropped = dropped] IN
            IF dropped # 0
            THEN IF NotYetBacktracked(w.frags[fc])
                 THEN IF ~MustBacktrack(w.frags[fc].sn)
                      THEN AppendParsedData(w1, nonEmpty)
                      ELSE LET w2 == TrackerCall(w1, r.tracked \ {fc}) IN
                           IF w2.threw # "" THEN w2
                           ELSE MediaFragmentReceiver_tick(
                                  [w2 EXCEPT !.frags[fc].backtracked = TRUE,
                                             !.rx.nextLoadPosition = startPTS,
                                             !.rx.state = "IDLE",
                                             !.rx.fragPrevious = fc])
                 ELSE AppendParsedData(w1, nonEmpty)
            ELSE AppendParsedData([w1 EXCEPT !.frags[fc].backtracked = FALSE], nonEmpty)
       ELSE AppendParsedData(w, nonEmpty)
  ELSE w

MediaFragmentReceiver_onFragParsed(w, f, id) ==
  IF id = "main" /\ IsCurrent(w, f) /\ w.rx.state = "PARSING"
  THEN MediaFragmentReceiver_checkAppendedParsed([w EXCEPT !.rx.state = "PARSED"])
  ELSE w

\* if (!this.loadedmetadata): the aborted load was that of the first fragment
AbortedOnFirstFrag_always(r) == TRUE

AbortedOnFirstFrag(r) == ~r.loadedmetadata

MediaFragmentReceiver_onFragLoadEmergencyAborted(w) ==
  LET w1 == [w EXCEPT !.rx.state = "IDLE"]
      w2 == IF AbortedOnFirstFrag(w.rx)
            THEN [w1 EXCEPT !.rx.startFragRequested = FALSE,
                            !.rx.nextLoadPosition = w.rx.startPosition]
            ELSE w1
  IN  MediaFragmentReceiver_tick(w2)

----------------------------------------------------------------------------
(* Delivery of an engine callback to the client that registered it         *)

Dispatch(w, e, cb, data, openOk) ==
  LET en == w.engs[e]
      context == en.context
      response == [url |-> context.url, data |-> data]
  IN IF cb = "none" THEN w
     ELSE IF en.callbacks = "playlist"
       THEN (CASE cb = "success" -> PlaylistLoadingHandler_loadsuccess(w, response, context, openOk)
               [] cb = "error"   -> PlaylistLoadingHandler_loaderror(w, context)
               [] cb = "timeout" -> PlaylistLoadingHandler_loadtimeout(w, context))
     ELSE IF en.callbacks = "key"
       THEN (CASE cb = "success" -> KeyLoadingHandler_handleSuccess(w, response, context)
               [] cb = "error"   -> KeyLoadingHandler_handleError(w, context)
               [] cb = "timeout" -> KeyLoadingHandler_handleTimeout(w, context))
     ELSE IF en.callbacks = "frag"
       THEN (CASE cb = "success" -> FragmentLoadingHandler_handleSuccess(w, response, context)
               [] cb = "error"   -> FragmentLoadingHandler_handleError(w, context)
               [] cb = "timeout" -> FragmentLoadingHandler_handleTimeout(w, context))
     ELSE w    \* a direct client only observes its callbacks

\* what a server may send back for the request of engine en
ResponsesFor(en) ==
  CASE en.callbacks = "playlist" /\ ~en.context.isSidxRequest -> Bodies
    [] en.callbacks = "key" -> {en.context.url}   \* the key bytes of that URI
    [] en.callbacks = "frag" -> {"payload"}
    [] OTHER -> {NoBody}

Op(name, e, arg) == [name |-> name, e |-> e, arg |-> arg, url |-> "", data |-> NoBody]

\* a step of a client asking for url
OpUrl(name, url) == [Op(name, 0, 0) EXCEPT !.url = url]

Commit(w, o) ==
  /\ Len(w.engs) <= MaxEngines
  /\ engs' = w.engs
  /\ loaders' = w.loaders
  /\ kLoaders' = w.kLoaders
  /\ fLoaders' = w.fLoaders
  /\ keyUrl' = w.keyUrl
  /\ keyData' = w.keyData
  /\ frags' = w.frags
  /\ rx' = w.rx
  /\ segments' = w.segments
  /\ out' = w.out
  /\ threw' = w.threw
  /\ op' = o
  /\ UNCHANGED <<hls, call>>

----------------------------------------------------------------------------
(* Steps of the browser: transfer progress and timers                      *)

EngIds == 1..Len(engs)

XhrHeaders(e) ==
  /\ engs[e].xhr.exists /\ engs[e].xhr.live /\ engs[e].xhr.rs = 1
  /\ Commit(OnEngine(World, e, XhrEvent(engs[e], 2, 0)), Op("xhrHeaders", e, 0))

XhrLoading(e) ==
  /\ engs[e].xhr.exists /\ engs[e].xhr.live /\ engs[e].xhr.rs \in {2, 3}
  /\ engs[e].xhr.chunks < MaxChunks
  /\ Commit(OnEngine(World, e, XhrEvent(engs[e], 3, 0)), Op("xhrLoading", e, 0))

XhrDone(e) ==
  /\ engs[e].xhr.exists /\ engs[e].xhr.live
  /\ \E status \in Statuses :
       /\ status # 0 => engs[e].xhr.rs >= 2
       \* the body is read on success only; a request is opened in turn only
       \* for a playlist that needs its sidx ranges
       /\ \E data \in (IF IsSuccess(status) THEN ResponsesFor(engs[e]) ELSE {NoBody}) :
            \E openOk \in (IF engs[e].callbacks = "playlist" /\ data.needSidxRanges
                             THEN BOOLEAN ELSE {TRUE}) :
              LET r == XhrEvent(engs[e], 4, status)
              IN Commit(Dispatch(OnEngine(World, e, r), e, r.cb, data, openOk),
                        [Op("xhrDone", e, status) EXCEPT !.data = data])

RequestTimeout(e) ==
  /\ engs[e].requestTimeout = 0
  /\ LET r == NetworkEngine_handleTimeout([engs[e] EXCEPT !.requestTimeout = NoTimer])
     IN Commit(Dispatch(OnEngine(World, e, r), e, r.cb, NoBody, TRUE),
               Op("requestTimeout", e, 0))

RetryTimeout(e) ==
  /\ engs[e].retryTimeout = 0
  /\ \E openOk \in BOOLEAN :
       LET r == NetworkEngine_execRequest([engs[e] EXCEPT !.retryTimeout = NoTimer], openOk)
       IN Commit(Dispatch(OnEngine(World, e, r), e, r.cb, NoBody, TRUE),
                 Op("retryTimeout", e, 0))

Tick ==
  /\ \E e \in EngIds : engs[e].requestTimeout > 0 \/ engs[e].retryTimeout > 0
  /\ \A e \in EngIds : engs[e].requestTimeout # 0 /\ engs[e].retryTimeout # 0
  /\ Commit([World EXCEPT !.engs =
               [e \in EngIds |->
                  [engs[e] EXCEPT !.requestTimeout = IF @ > 0 THEN @ - 1 ELSE @,
                                  !.retryTimeout = IF @ > 0 THEN @ - 1 ELSE @]]],
            Op("tick", 0, 0))

----------------------------------------------------------------------------
(* A client that drives one engine through its public interface            *)

Configs == [timeout : {MaxTimeOut}, maxRetry : 0..MaxRetryCfg,
            retryDelay : 1..MaxDelayCfg, maxRetryDelay : 1..MaxDelayCap]

DirectContext == [NoContext EXCEPT !.type = "direct", !.url = "u1"]

Load(e) ==
  /\ engs[e].nLoads < MaxLoads
  /\ \E openOk \in BOOLEAN :
       Commit(OnEngine(World, e,
                NetworkEngine_load(engs[e], DirectContext, hls.direct, "direct", openOk)),
              Op("load", e, 0))

Abort(e) ==
  Commit(OnEngine(World, e, NetworkEngine_abort(engs[e])), Op("abort", e, 0))

Destroy(e) ==
  Commit(OnEngine(World, e, NetworkEngine_destroy(engs[e])), Op("destroy", e, 0))

NoHlsConfig ==
  [direct |-> NoConfig,
   manifestLoadingTimeOut |-> 0, manifestLoadingMaxRetry |-> 0,
   manifestLoadingRetryDelay |-> 0, manifestLoadingMaxRetryTimeout |-> 0,
   levelLoadingTimeOut |-> 0, levelLoadingMaxRetry |-> 0,
   levelLoadingRetryDelay |-> 0, levelLoadingMaxRetryTimeout |-> 0,
   fragLoadingTimeOut |-> 0, fragLoadingRetryDelay |-> 0,
   fragLoadingMaxRetryTimeout |-> 0]

\* no function of the playlist model is called
NoCall == [fn |-> "", done |-> FALSE]

InitHandlers ==
  /\ call = NoCall
  /\ loaders = [t \in ContextTypes |-> 0]
  /\ kLoaders = [t \in LoaderSlots |-> 0]
  /\ fLoaders = [t \in FragTypes |-> 0]
  /\ keyUrl = ""
  /\ keyData = ""
  /\ rx = MediaFragmentReceiver_constructor
  /\ segments = <<>>
  /\ out = <<>>
  /\ threw = ""
  /\ op = Op("init", 0, 0)

Init ==
  /\ engs = <<NetworkEngine_constructor>>
  /\ frags = <<>>
  /\ \E config \in Configs : hls = [NoHlsConfig EXCEPT !.direct = config]
  /\ InitHandlers

Next ==
  \/ Load(1)
  \/ Abort(1)
  \/ Destroy(1)
  \/ \E e \in EngIds : XhrHeaders(e)
  \/ \E e \in EngIds : XhrLoading(e)
  \/ \E e \in EngIds : XhrDone(e)
  \/ \E e \in EngIds : RequestTimeout(e)
  \/ \E e \in EngIds : RetryTimeout(e)
  \/ Tick

Spec == Init /\ [][Next]_vars

----------------------------------------------------------------------------
(* Properties of the transport engine (checked under Spec)                 *)

\* the load in progress on en was issued by load() on an idle engine and no
\* client call (abort, destroy, a rejected load) or failure to open the
\* request has interfered with it since
Undisturbed(en) ==
  en.nLoads > 0 /\ ~en.obs.rejected /\ ~en.obs.aborted /\ ~en.obs.openFailed

\* C2: a load whose every response has a retryable non-2xx status is sent
\* maxRetry + 1 times, then onError is invoked once, with stats.retry =
\* maxRetry, and never before the retries are used up
C2_RetryBudget ==
  \A e \in EngIds :
    LET en == engs[e] IN
    (Undisturbed(en) /\ en.obs.allRetryable) =>
      /\ en.obs.nSuccess = 0
      /\ en.obs.nError <= 1
      /\ en.obs.sends <= en.config.maxRetry + 1
      /\ en.obs.nError = 1 =>
           /\ en.obs.sends = en.config.maxRetry + 1
           /\ en.stats.retry = en.config.maxRetry
           /\ ~Active(en)
      /\ ~Active(en) => en.obs.nError = 1

C2_Witness ==
  \E e \in EngIds :
    /\ Undisturbed(engs[e]) /\ engs[e].obs.allRetryable
    /\ engs[e].config.maxRetry = 2
    /\ engs[e].obs.sends = 3
    /\ engs[e].obs.nError = 1
    /\ op.name = "xhrDone" /\ op.arg = 503

\* C3: a response with a status in 400..499 is never retried: onError is
\* invoked for it and no retry timer is scheduled
C3_Never4xxRetry ==
  [][\A e \in EngIds :
       (op'.name = "xhrDone" /\ op'.e = e /\ op'.arg >= 400 /\ op'.arg <= 499) =>
          /\ engs'[e].obs.nError = engs[e].obs.nError + 1
          /\ engs'[e].retryTimeout = engs[e].retryTimeout
          /\ engs'[e].obs.delays = engs[e].obs.delays
          /\ engs'[e].stats.retry = engs[e].stats.retry]_vars

IsNonDecreasing(d) == \A i \in 1..(Len(d) - 1) : d[i] <= d[i + 1]

\* C4 as claimed: for every retryDelay and maxRetryDelay the retry delays of
\* one load are non-decreasing and none exceeds maxRetryDelay
C4_DelaysCappedForEveryConfig ==
  \A e \in EngIds :
    LET en == engs[e] IN
    (en.nLoads > 0 /\ ~en.obs.rejected) =>
      /\ IsNonDecreasing(en.obs.delays)
      /\ \A i \in 1..Len(en.obs.delays) : en.obs.delays[i] <= en.config.maxRetryDelay

\* C4 as amended: the first delay is retryDelay, each later delay is
\* min(2 * previous, maxRetryDelay), every retry timer is armed with the delay
\* recorded for it; the delays are non-decreasing and capped when
\* retryDelay <= maxRetryDelay
C4_Backoff ==
  [][\A e \in EngIds :
       LET en == engs'[e]
           d == en.obs.delays
       IN (en.nLoads > 0 /\ ~en.obs.rejected) =>
            /\ Len(d) >= 1 => d[1] = en.config.retryDelay
            /\ \A i \in 1..(Len(d) - 1) : d[i + 1] = Min(2 * d[i], en.config.maxRetryDelay)
            /\ Len(d) = Len(engs[e].obs.delays) + 1 => en.retryTimeout = d[Len(d)]
            /\ en.config.retryDelay <= en.config.maxRetryDelay =>
                 /\ IsNonDecreasing(d)
                 /\ \A i \in 1..Len(d) : d[i] <= en.config.maxRetryDelay]_vars

C4_Witness ==
  \E e \in EngIds :
    /\ ~engs[e].obs.rejected
    /\ engs[e].obs.delays = <<2, 3>>
    /\ engs[e].config.maxRetryDelay = 3

\* C5: load() on an engine whose transfer is in flight throws 'Request
\* already ongoing' and starts no transfer; an engine never has two transfers
\* in flight
C5_SingleFlight ==
  [][\A e \in EngIds :
       /\ engs'[e].inflight <= 1
       /\ (op'.name = "load" /\ op'.e = e /\ engs[e].xhr.exists /\ engs[e].xhr.live) =>
            /\ threw' = "Request already ongoing"
            /\ engs'[e].obs.sends = engs[e].obs.sends
            /\ engs'[e].inflight = engs[e].inflight
            /\ engs'[e].xhr = engs[e].xhr]_vars

C5_Witness ==
  /\ op.name = "load"
  /\ threw = "Request already ongoing"
  /\ engs[op.e].xhr.live
  /\ engs[op.e].inflight = 1

\* what a client can observe of an engine
Observable(en) ==
  [live |-> en.xhr.exists /\ en.xhr.live, requestTimeout |-> en.requestTimeout,
   retryTimeout |-> en.retryTimeout, sends |-> en.obs.sends,
   nSuccess |-> en.obs.nSuccess, nError |-> en.obs.nError,
   nTimeout |-> en.obs.nTimeout]

\* C6: abort() cancels the transfer, the request timeout and the retry timer,
\* after which nothing is sent and no callback is delivered for that load;
\* abort() never throws, a second abort() changes nothing, and neither does
\* abort() on an engine that never loaded or whose transfer has completed
C6_AbortCancels ==
  [][\A e \in EngIds :
       /\ (op'.name = "abort" /\ op'.e = e) =>
            /\ threw' = ""
            /\ ~Active(engs'[e])
            /\ engs'[e].obs.sends = engs[e].obs.sends
            /\ engs'[e].obs.nSuccess = engs[e].obs.nSuccess
            /\ engs'[e].obs.nError = engs[e].obs.nError
            /\ engs'[e].obs.nTimeout = engs[e].obs.nTimeout
            /\ (op.name = "abort" /\ op.e = e) => engs'[e] = engs[e]
            /\ (~Active(engs[e]) /\ (engs[e].nLoads = 0 \/ engs[e].xhr.rs = 4)) =>
                 [engs'[e] EXCEPT !.obs.aborted = engs[e].obs.aborted] = engs[e]
       /\ (engs[e].obs.aborted /\ engs'[e].obs.aborted) =>
            /\ ~Active(engs'[e])
            /\ ~engs'[e].obs.late
            /\ Observable(engs'[e]) = Observable(engs[e])]_vars

\* abort() has cancelled a transfer that was a retry
C6_Witness ==
  \E e \in EngIds :
    /\ op.name = "abort" /\ op.e = e
    /\ engs[e].stats.aborted /\ engs[e].stats.retry = 1
    /\ engs[e].xhr.exists /\ ~engs[e].xhr.live

\* C7: the request timeout is armed with config.timeout when a request is
\* sent and again at every state change short of completion, and is cancelled
\* at completion; when it runs out onTimeout is invoked; it is never armed for
\* a request that has completed or been aborted
C7_RequestTimeout ==
  [][\A e \in EngIds :
       /\ engs'[e].obs.sends = engs[e].obs.sends + 1 =>
            engs'[e].requestTimeout = engs'[e].config.timeout
       /\ (op'.name \in {"xhrHeaders", "xhrLoading"} /\ op'.e = e) =>
            engs'[e].requestTimeout = engs'[e].config.timeout
       /\ (op'.name = "xhrDone" /\ op'.e = e) =>
            engs'[e].requestTimeout = NoTimer
       /\ (op'.name = "requestTimeout" /\ op'.e = e) =>
            /\ engs[e].requestTimeout = 0
            /\ engs[e].xhr.exists /\ engs[e].xhr.live
            /\ ~engs[e].stats.aborted
            /\ engs'[e].obs.nTimeout = engs[e].obs.nTimeout + 1
       /\ engs'[e].requestTimeout # NoTimer =>
            (engs'[e].xhr.exists /\ engs'[e].xhr.live /\ ~engs'[e].stats.aborted)]_vars

\* the timeout ran out once, and a LOADING state change has armed it again
C7_Witness ==
  \E e \in EngIds :
    /\ op.name = "xhrLoading" /\ op.e = e
    /\ engs[e].obs.nTimeout = 1
    /\ engs[e].requestTimeout = engs[e].config.timeout

----------------------------------------------------------------------------
(* A client of the PlaylistLoadingHandler: the four loading events         *)

PlMaxRetry == 1     \* largest manifestLoadingMaxRetry
PlLevelMaxRetry == 0   \* levelLoadingMaxRetry
PlTimeOut == 1      \* manifestLoadingTimeOut / levelLoadingTimeOut, in ticks
PlRetryDelay == 1   \* the two retry delays and their caps, in ticks
PlMaxLoads == 2     \* loading events in a run

PlaylistContext(type) == [NoContext EXCEPT !.type = type]

OnManifestLoading(url) ==
  /\ Len(engs) < PlMaxLoads
  /\ \E openOk \in BOOLEAN :
    Commit(PlaylistLoadingHandler_load(World, url, PlaylistContext("manifest"), openOk),
           OpUrl("onManifestLoading", url))

OnLevelLoading(url) ==
  /\ Len(engs) < PlMaxLoads
  /\ \E openOk \in BOOLEAN :
    Commit(PlaylistLoadingHandler_load(World, url, PlaylistContext("level"), openOk),
           OpUrl("onLevelLoading", url))

OnAudioTrackLoading(url) ==
  /\ Len(engs) < PlMaxLoads
  /\ \E openOk \in BOOLEAN :
    Commit(PlaylistLoadingHandler_load(World, url, PlaylistContext("audioTrack"), openOk),
           OpUrl("onAudioTrackLoading", url))

OnSubtitleTrackLoading(url) ==
  /\ Len(engs) < PlMaxLoads
  /\ \E openOk \in BOOLEAN :
    Commit(PlaylistLoadingHandler_load(World, url, PlaylistContext("subtitleTrack"), openOk),
           OpUrl("onSubtitleTrackLoading", url))

InitPlaylist ==
  /\ engs = <<>>
  /\ frags = <<>>
  /\ \E m \in 0..PlMaxRetry, l \in {PlLevelMaxRetry} :
       hls = [NoHlsConfig EXCEPT
                !.manifestLoadingTimeOut = PlTimeOut,
                !.manifestLoadingMaxRetry = m,
                !.manifestLoadingRetryDelay = PlRetryDelay,
                !.manifestLoadingMaxRetryTimeout = PlRetryDelay,
                !.levelLoadingTimeOut = PlTimeOut,
                !.levelLoadingMaxRetry = l,
                !.levelLoadingRetryDelay = PlRetryDelay,
                !.levelLoadingMaxRetryTimeout = PlRetryDelay]
  /\ InitHandlers

NextPlaylist ==
  \/ \E url \in Urls : OnManifestLoading(url)
  \/ \E url \in Urls : OnLevelLoading(url)
  \/ \E url \in Urls : OnAudioTrackLoading(url)
  \/ \E url \in Urls : OnSubtitleTrackLoading(url)
  \/ \E e \in EngIds : XhrHeaders(e)
  \/ \E e \in EngIds : XhrLoading(e)
  \/ \E e \in EngIds : XhrDone(e)
  \/ \E e \in EngIds : RequestTimeout(e)
  \/ \E e \in EngIds : RetryTimeout(e)
  \/ Tick

SpecPlaylist == InitPlaylist /\ [][NextPlaylist]_vars

----------------------------------------------------------------------------
(* Properties of the playlist lanes (checked under SpecPlaylist)           *)

\* the context type a loading event stands for
LaneOf(name) ==
  CASE name = "onManifestLoading" -> "manifest"
    [] name = "onLevelLoading" -> "level"
    [] name = "onAudioTrackLoading" -> "audioTrack"
    [] name = "onSubtitleTrackLoading" -> "subtitleTrack"
    [] OTHER -> ""

Callbacks(en) == en.obs.nSuccess + en.obs.nError + en.obs.nTimeout

\* C1: every request issued on a playlist lane gets at most one of
\* onSuccess, onError and onTimeout in total, none of them after the request
\* was aborted or superseded by a newer request of its lane, a request that
\* is no longer the one of its lane has nothing pending that could still call
\* back, and no callback fails for want of the lane's engine.
C1_CallbackAtMostOnce ==
  /\ threw # "TypeError"
  /\ \A e \in EngIds :
       /\ Callbacks(engs[e]) <= 1
       /\ ~engs[e].obs.late
       /\ engs[e].obs.aborted => ~Active(engs[e])
       /\ Callbacks(engs[e]) = 1 => ~Active(engs[e])
       /\ loaders[engs[e].context.type] # e => ~Active(engs[e])

\* a request was superseded while its transfer was in flight, has received
\* no callback, and the newer request of the lane has received its one
C1_Witness ==
  \E e1, e2 \in EngIds :
    /\ e1 < e2
    /\ engs[e1].context.type = engs[e2].context.type
    /\ engs[e1].stats.aborted /\ engs[e1].obs.sends = 1
    /\ Callbacks(engs[e1]) = 0
    /\ Callbacks(engs[e2]) = 1 /\ engs[e2].obs.sends = 2

ActiveOn(es, type) ==
  {e \in 1..Len(es) : es[e].context.type = type /\ Active(es[e])}

\* C8: on every playlist lane at most one engine is in flight and it is the
\* lane's registered loader; a load for the URL of the request in flight
\* changes nothing (no engine is created, nothing is sent, nothing aborted);
\* a load for another URL leaves the previous engine aborted with nothing
\* pending, creates exactly one engine, and whatever is then in flight on
\* the lane is that new engine.
C8_LaneSingleFlight ==
  [][ /\ \A t \in ContextTypes :
           /\ Cardinality(ActiveOn(engs', t)) <= 1
           /\ ActiveOn(engs', t) \subseteq {loaders'[t]}
      /\ \A t \in ContextTypes :
           (LaneOf(op'.name) = t /\ ActiveOn(engs, t) # {}) =>
              LET cur == loaders[t]
              IN IF engs[cur].context.url = op'.url
                   THEN engs' = engs /\ loaders' = loaders /\ out' = <<>>
                   ELSE /\ Len(engs') = Len(engs) + 1
                        /\ ~Active(engs'[cur])
                        /\ engs'[cur].obs.aborted
                        /\ engs'[cur].xhr.exists => engs'[cur].stats.aborted
                        /\ engs'[cur].obs.sends = engs[cur].obs.sends
                        /\ Callbacks(engs'[cur]) = Callbacks(engs[cur])
                        /\ engs'[Len(engs')].context.url = op'.url
                        /\ engs'[Len(engs')].nLoads = 1
                        /\ ActiveOn(engs', t) \subseteq {Len(engs')}
                        /\ \A e \in EngIds \ {cur} : engs'[e] = engs[e]
    ]_vars

\* a load for another URL has just replaced a transfer in flight, and the
\* new request is in flight
C8_Witness ==
  /\ LaneOf(op.name) # ""
  /\ \E e \in EngIds :
       /\ e < Len(engs)
       /\ engs[e].context.type = LaneOf(op.name)
       /\ engs[e].stats.aborted /\ engs[e].xhr.exists
       /\ engs[e].context.url # op.url
       /\ loaders[LaneOf(op.name)] = Len(engs)
       /\ Active(engs[Len(engs)])

----------------------------------------------------------------------------
(* A client of the KeyLoadingHandler: KEY_LOADING events for the fragments *)

KeyTimeOut == 1      \* fragLoadingTimeOut, in ticks
KeyRetryDelay == 1   \* fragLoadingRetryDelay / fragLoadingMaxRetryTimeout

\* the fragments of a run: frag.type, decryptdata.uri, frag.loader and
\* decryptdata.key
Fragments ==
  [1..NFrags -> [type : FragTypes, uri : KeyUris, loader : {0}, key : {""}]]

OnKeyLoading(f) ==
  \E openOk \in BOOLEAN :
    Commit(KeyLoadingHandler_onKeyLoading(World, f, openOk), Op("onKeyLoading", 0, f))

InitKey ==
  /\ engs = <<>>
  /\ frags \in Fragments
  /\ hls = [NoHlsConfig EXCEPT !.fragLoadingTimeOut = KeyTimeOut,
                               !.fragLoadingRetryDelay = KeyRetryDelay,
                               !.fragLoadingMaxRetryTimeout = KeyRetryDelay]
  /\ InitHandlers

NextKey ==
  \/ \E f \in 1..NFrags : OnKeyLoading(f)
  \/ \E e \in EngIds : XhrHeaders(e)
  \/ \E e \in EngIds : XhrLoading(e)
  \/ \E e \in EngIds : XhrDone(e)
  \/ \E e \in EngIds : RequestTimeout(e)
  \/ Tick

SpecKey == InitKey /\ [][NextKey]_vars

----------------------------------------------------------------------------
(* Properties of the key cache (checked under SpecKey)                     *)

\* the lane of key engine e: the type of the fragment it loads the key of
KeyLane(e) == frags[engs[e].context.frag].type

C10_NewFetchPerLane ==
  [][ /\ \A e1, e2 \in 1..Len(engs') :
           (Active(engs'[e1]) /\ Active(engs'[e2])
              /\ frags'[engs'[e1].context.frag].type = frags'[engs'[e2].context.frag].type)
           => e1 = e2
      /\ (op'.name = "onKeyLoading"
           /\ (frags[op'.arg].uri # keyUrl \/ keyData = "")) =>
           LET f == op'.arg
               new == Len(engs')
           IN /\ new = Len(engs) + 1
              /\ engs'[new].nLoads = 1
              /\ engs'[new].context.url = frags[f].uri
              /\ engs'[new].context.frag = f
              /\ engs'[new].obs.sends = IF engs'[new].obs.openFailed THEN 0 ELSE 1
              /\ ~engs'[new].obs.openFailed => Active(engs'[new])
              /\ \A e \in EngIds :
                   IF KeyLane(e) = frags[f].type
                     THEN /\ ~Active(engs'[e])
                          /\ Active(engs[e]) => engs'[e].stats.aborted
                          /\ engs'[e].obs.sends = engs[e].obs.sends
                          /\ Callbacks(engs'[e]) = Callbacks(engs[e])
                     ELSE engs'[e] = engs[e]
    ]_vars

\* a key request has just aborted the request in flight on its lane while a
\* request of the other lane stays in flight, and its own fetch is in flight
C10_Witness ==
  /\ op.name = "onKeyLoading"
  /\ Len(engs) = 3 /\ Active(engs[3])
  /\ engs[3].context.frag = op.arg
  /\ \E e1, e2 \in {1, 2} :
       /\ KeyLane(e1) = KeyLane(3) /\ engs[e1].stats.aborted /\ engs[e1].xhr.exists
       /\ Callbacks(engs[e1]) = 0
       /\ KeyLane(e2) # KeyLane(3) /\ Active(engs[e2]) /\ engs[e2].xhr.live

----------------------------------------------------------------------------
(* A client of the FragmentLoadingHandler: FRAG_LOADING events             *)

FragCount == 3     \* fragment objects in a run

\* the fragments of a run, by frag.type
FragmentsToLoad ==
  [1..FragCount -> [type : FragTypes, uri : {""}, loader : {0}, key : {""}]]

OnFragLoading(f) ==
  \E openOk \in BOOLEAN :
    Commit(FragmentLoadingHandler_onFragLoading(World, f, openOk),
           Op("onFragLoading", 0, f))

InitFrag ==
  /\ engs = <<>>
  /\ frags \in FragmentsToLoad
  /\ hls = [NoHlsConfig EXCEPT !.fragLoadingTimeOut = KeyTimeOut,
                               !.fragLoadingRetryDelay = KeyRetryDelay,
                               !.fragLoadingMaxRetryTimeout = KeyRetryDelay]
  /\ InitHandlers

NextFrag ==
  \/ \E f \in 1..FragCount : OnFragLoading(f)
  \/ \E e \in EngIds : XhrHeaders(e)
  \/ \E e \in EngIds : XhrLoading(e)
  \/ \E e \in EngIds : XhrDone(e)
  \/ \E e \in EngIds : RequestTimeout(e)
  \/ Tick

SpecFrag == InitFrag /\ [][NextFrag]_vars

----------------------------------------------------------------------------
(* Properties of the fragment lanes (checked under SpecFrag)               *)

\* the lane of fragment engine e: the type of the fragment it loads
FragLane(e) == frags[engs[e].context.frag].type

\* C11: a fragment load started on a lane leaves every older engine of that
\* lane with nothing pending, the one in flight aborted without a callback;
\* it leaves the engines of the other lanes exactly as they were; and a
\* FRAG_LOADED or ERROR event only ever comes from the engine that is the
\* registered loader of its lane and the latest load of the event's
\* fragment, so none comes from a load that was superseded.
C11_FragLaneSupersede ==
  [][ /\ op'.name = "onFragLoading" =>
           \A e \in EngIds :
             IF FragLane(e) = frags[op'.arg].type
               THEN /\ ~Active(engs'[e])
                    /\ Active(engs[e]) => engs'[e].stats.aborted
                    /\ Callbacks(engs'[e]) = Callbacks(engs[e])
               ELSE engs'[e] = engs[e]
      /\ \A e \in 1..Len(engs') :
           /\ Callbacks(engs'[e]) <= 1
           /\ ~engs'[e].obs.late
           /\ fLoaders'[frags'[engs'[e].context.frag].type] # e => ~Active(engs'[e])
      /\ (op'.name \in {"xhrHeaders", "xhrLoading", "xhrDone", "requestTimeout"}
            /\ out' # <<>>) =>
           /\ Len(out') = 1
           /\ out'[1].frag = engs[op'.e].context.frag
           /\ fLoaders[FragLane(op'.e)] = op'.e
           /\ frags[out'[1].frag].loader = op'.e
    ]_vars

\* a load was superseded in flight and stays without a callback, and the
\* load that was in flight on the other lane at that time has completed
C11_Witness ==
  /\ Len(engs) = 3
  /\ op.name = "xhrDone" /\ op.e = 2
  /\ Len(out) = 1 /\ out[1].ev = "FRAG_LOADED"
  /\ engs[1].stats.aborted /\ engs[1].obs.sends = 1 /\ Callbacks(engs[1]) = 0
  /\ FragLane(1) = FragLane(3) /\ FragLane(2) # FragLane(3)
  /\ engs[1].context.frag # engs[3].context.frag
  /\ Active(engs[3])


----------------------------------------------------------------------------
(* The owner of a MediaFragmentReceiver and the events of the hls bus      *)

RxFragCount == 2
RxMaxPTS == 1
RxMaxDropped == 1
RxMaxSegments == 2

\* the MediaFragment objects on the bus: the first is of the main playlist
\* (its init segment, its first fragment or a later one; a media fragment may
\* be loaded as a bitrate test), the others are later ones of the audio
\* playlist
ReceiverFragments ==
  { [i \in 1..RxFragCount |->
       IF i = 1 THEN a
       ELSE [type |-> "audio", sn |-> StartSN + 1, level |-> 0,
             backtracked |-> FALSE, dropped |-> 0, bitrateTest |-> FALSE]] :
      a \in { m \in [type : {"main"}, sn : {InitSegmentSN, StartSN, StartSN + 1},
                      level : {0}, backtracked : {FALSE}, dropped : {0},
                      bitrateTest : BOOLEAN] :
                m.bitrateTest => m.sn # InitSegmentSN } }

\* the inputs of an event: all of them when the handler looks at them, one
\* of them when it ignores the event
InputsIf(relevant, inputs) ==
  IF relevant THEN inputs ELSE {CHOOSE i \in inputs : TRUE}

\* the step of an event or call e with input arg
RxStep(w, name, f, arg) ==
  /\ Len(w.segments) <= RxMaxSegments
  /\ Commit(w, Op(name, f, arg))

\* the owner starts loading: the machine leaves STOPPED
StartLoad ==
  /\ rx.state = "STOPPED"
  /\ RxStep([World EXCEPT !.rx.state = "IDLE"], "startLoad", 0, 0)

\* the owner's selection loop picks fragment f of the main playlist and
\* requests it
SelectFragment(f) ==
  /\ rx.state = "IDLE"
  /\ frags[f].type = "main"
  /\ RxStep([World EXCEPT !.rx.fragCurrent = f,
                          !.rx.startFragRequested = TRUE,
                          !.rx.state = "FRAG_LOADING"], "selectFragment", f, 0)

\* FRAG_LOADED for f; the appends still queued when a fragment enters PARSING
\* are those of earlier loads
OnFragLoaded(f) ==
  LET w == MediaFragmentReceiver_onFragLoaded(World, f) IN
  RxStep(IF w.rx.state = "PARSING"
         THEN [w EXCEPT !.segments = [i \in 1..Len(@) |-> FALSE]]
         ELSE w,
         "onFragLoaded", f, 0)

\* a parsing event for fragment f is looked at, and with id it reaches the
\* body of its handler
ParsingOf(f) == IsCurrent(World, f) /\ rx.state = "PARSING"

Parsing(f, id) == id = "main" /\ ParsingOf(f)

OnFragParsingInitSegment(f) ==
  \E id \in InputsIf(ParsingOf(f), {"main", "audio"}) :
    \E tracks \in InputsIf(Parsing(f, id), SUBSET {"audio", "video"}) :
      RxStep(MediaFragmentReceiver_onFragParsingInitSegment(World, f, id, tracks),
             "onFragParsingInitSegment", f, [id |-> id, tracks |-> tracks])

OnFragParsingData(f) ==
  \E id \in InputsIf(ParsingOf(f), {"main", "audio"}) :
    \E type \in InputsIf(Parsing(f, id), {"audio", "video"}),
       dropped \in InputsIf(Parsing(f, id), 0..RxMaxDropped),
       startPTS \in InputsIf(Parsing(f, id), 1..RxMaxPTS),
       nonEmpty \in InputsIf(Parsing(f, id), 0..DataBuffers) :
      RxStep(MediaFragmentReceiver_onFragParsingData(World, f, id, type, dropped,
                                                     startPTS, nonEmpty),
             "onFragParsingData", f,
             [id |-> id, type |-> type, dropped |-> dropped, startPTS |-> startPTS,
              nonEmpty |-> nonEmpty])

OnFragParsed(f) ==
  \E id \in InputsIf(ParsingOf(f), {"main", "audio"}) :
    RxStep(MediaFragmentReceiver_onFragParsed(World, f, id), "onFragParsed", f,
           [id |-> id])

OnBufferCreated ==
  \E alternate \in BOOLEAN, mediaTrack \in {TRUE} :
    RxStep(MediaFragmentReceiver_onBufferCreated(World, alternate, mediaTrack),
           "onBufferCreated", 0, [alternate |-> alternate, mediaTrack |-> mediaTrack])

\* BUFFER_APPENDED of the main source buffers: the oldest queued append is
\* done, data.pending is the number of those still queued
OnBufferAppended ==
  /\ segments # <<>>
  /\ RxStep(MediaFragmentReceiver_onBufferAppended(
              [World EXCEPT !.segments = Tail(@)], "main", Len(segments) - 1),
            "onBufferAppended", 0, [parent |-> "main", pending |-> Len(segments) - 1])

\* BUFFER_APPENDED of the source buffers of another stream controller
OnOtherBufferAppended ==
  RxStep(MediaFragmentReceiver_onBufferAppended(World, "audio", 0),
         "onBufferAppended", 0, [parent |-> "audio", pending |-> 0])

OnBufferFlushed ==
  \E evicted \in SUBSET rx.tracked :
    RxStep(MediaFragmentReceiver_onBufferFlushed(World, evicted), "onBufferFlushed", 0, 0)

FlushMainBuffer ==
  RxStep(MediaFragmentReceiver_flushMainBuffer(World), "flushMainBuffer", 0, 0)

OnFragLoadEmergencyAborted ==
  RxStep(MediaFragmentReceiver_onFragLoadEmergencyAborted(World),
         "onFragLoadEmergencyAborted", 0, 0)

\* the load of the requested fragment fails: the loader triggers ERROR on the
\* bus; the receiver is not registered for it, none of its handlers runs
OnError(f) ==
  /\ rx.state = "FRAG_LOADING"
  /\ rx.fragCurrent = f
  /\ "ERROR" \notin ReceiverEvents
  /\ RxStep(Trigger(World, FragEvent("ERROR", f, "fragLoadError")), "onError", f, 0)

InitReceiver ==
  /\ call = NoCall
  /\ engs = <<>>
  /\ frags \in ReceiverFragments
  /\ segments = <<>>
  /\ hls = NoHlsConfig
  /\ loaders = [t \in ContextTypes |-> 0]
  /\ kLoaders = [t \in LoaderSlots |-> 0]
  /\ fLoaders = [t \in FragTypes |-> 0]
  /\ keyUrl = ""
  /\ keyData = ""
  /\ out = <<>>
  /\ threw = ""
  /\ op = Op("init", 0, 0)
  /\ \E tracker \in BOOLEAN, media \in BOOLEAN, meta \in BOOLEAN, next \in 0..1 :
       rx = [MediaFragmentReceiver_constructor EXCEPT
               !.fragmentTracker = tracker, !.media = media,
               !.loadedmetadata = meta, !.nextLoadLevel = next,
               !.startPosition = 0]

NextReceiver ==
  \/ StartLoad
  \/ \E f \in 1..RxFragCount : SelectFragment(f)
  \/ \E f \in 1..RxFragCount : OnFragLoaded(f)
  \/ \E f \in 1..RxFragCount : OnFragParsingInitSegment(f)
  \/ \E f \in 1..RxFragCount : OnFragParsingData(f)
  \/ \E f \in 1..RxFragCount : OnFragParsed(f)
  \/ OnBufferCreated
  \/ OnBufferAppended
  \/ OnOtherBufferAppended
  \/ OnBufferFlushed
  \/ FlushMainBuffer
  \/ OnFragLoadEmergencyAborted
  \/ \E f \in 1..RxFragCount : OnError(f)

SpecReceiver == InitReceiver /\ [][NextReceiver]_vars


----------------------------------------------------------------------------
(* Properties of the delivery state machine (checked under SpecReceiver)   *)

\* the last step emitted event ev
Emitted(ev) == \E i \in 1..Len(out) : out[i].ev = ev

\* the step being taken is video parse data with dropped leading frames that
\* reaches the body of onFragParsingData
DroppedVideoData ==
  /\ op'.name = "onFragParsingData"
  /\ Parsing(op'.e, op'.arg.id)
  /\ op'.arg.type = "video"
  /\ op'.arg.dropped > 0

\* C12: whenever video parse data for the current fragment reports dropped
\* leading frames and the fragment is not marked backtracked, the fragment is
\* removed from the tracker and marked backtracked, the next-load position
\* becomes the parsed start time, the state becomes IDLE and no buffer append
\* is requested.
C12_DroppedFramesBacktrack ==
  [][ (DroppedVideoData /\ ~frags[rx.fragCurrent].backtracked)
      => /\ rx.fragCurrent \notin rx'.tracked
         /\ frags'[rx.fragCurrent].backtracked
         /\ rx'.nextLoadPosition = op'.arg.startPTS
         /\ rx'.state = "IDLE"
         /\ \A i \in 1..Len(out') : out'[i].ev # "BUFFER_APPENDING" ]_vars

\* the number of events ev the step being taken emits
EmittedCount(ev) == Cardinality({i \in 1..Len(out') : out'[i].ev = ev})

AfterParsingStep == op'.name \in {"onFragParsed", "onBufferAppended"}

\* C14: for a fragment that went through parsing, FRAG_BUFFERED is emitted
\* only by a handler that finds or puts the machine in PARSED, only when none
\* of the appends issued for this fragment load is still queued, once, and
\* the handler leaves the machine in IDLE; as PARSED is only entered from
\* PARSING and PARSING only by a fragment load, there is at most one such
\* emission per load.
C14_BufferedOncePerLoad ==
  [][ /\ (AfterParsingStep /\ EmittedCount("FRAG_BUFFERED") > 0)
         => /\ rx.state = "PARSED" \/ (rx.state = "PARSING" /\ op'.name = "onFragParsed")
            /\ \A i \in 1..Len(segments') : ~segments'[i]
            /\ EmittedCount("FRAG_BUFFERED") = 1
            /\ rx'.state = "IDLE"
            /\ rx'.fragPrevious = rx.fragCurrent
      /\ (rx'.state = "PARSED" /\ rx.state # "PARSED") => rx.state = "PARSING"
      /\ (rx'.state = "PARSING" /\ rx.state # "PARSING")
         => (op'.name = "onFragLoaded" /\ rx.state = "FRAG_LOADING")
      /\ (rx.state \in {"PARSING", "PARSED"} /\ rx'.state \in {"PARSING", "PARSED"})
         => rx'.fragCurrent = rx.fragCurrent ]_vars

\* the last of two appends of a parsed fragment has just been acknowledged
\* and the fragment reported buffered
C14_Witness ==
  /\ op.name = "onBufferAppended"
  /\ op.arg.parent = "main" /\ op.arg.pending = 0
  /\ Emitted("FRAG_BUFFERED")
  /\ rx.state = "IDLE"
  /\ rx.fragPrevious = rx.fragCurrent
  /\ rx.appended

\* the step being taken is FRAG_LOADED for the current fragment, arriving in
\* FRAG_LOADING, and the fragment is a bitrate-probe fragment
ProbeLoaded ==
  /\ op'.name = "onFragLoaded"
  /\ rx.state = "FRAG_LOADING"
  /\ frags[op'.e].type = "main"
  /\ IsCurrent(World, op'.e)
  /\ frags[op'.e].bitrateTest

\* the step being taken reports the fragment buffered and returns to IDLE
\* without parsing it
SkippedParsing ==
  /\ rx'.state = "IDLE"
  /\ EmittedCount("FRAG_BUFFERED") = 1
  /\ EmittedCount("demuxer.push") = 0
  /\ EmittedCount("BUFFER_APPENDING") = 0

C16_FlushThenIdle ==
  [][ /\ op'.name = "flushMainBuffer" => rx'.state = "BUFFER_FLUSHING"
      /\ (op'.name = "onBufferFlushed" /\ rx.state = "BUFFER_FLUSHING")
         => (rx'.state = "IDLE" /\ rx'.fragPrevious = 0) ]_vars

\* C17: on FRAG_LOAD_EMERGENCY_ABORTED the machine goes to IDLE; when
\* loadedmetadata is not set the requested-start flag is cleared and the
\* next-load position becomes the start position, and when it is set both
\* are left as they were.
C17_EmergencyAbort ==
  [][ op'.name = "onFragLoadEmergencyAborted"
      => /\ rx'.state = "IDLE"
         /\ IF ~rx.loadedmetadata
            THEN ~rx'.startFragRequested /\ rx'.nextLoadPosition = rx.startPosition
            ELSE /\ rx'.startFragRequested = rx.startFragRequested
                 /\ rx'.nextLoadPosition = rx.nextLoadPosition ]_vars

\* the load of a requested fragment was aborted after metadata had loaded
\* and after a backtrack had moved the next-load position: both are kept
C17_Witness ==
  /\ op.name = "onFragLoadEmergencyAborted"
  /\ rx.state = "IDLE"
  /\ rx.loadedmetadata
  /\ rx.startFragRequested
  /\ rx.nextLoadPosition # rx.startPosition
  /\ rx.nextLoadPosition # Undefined

\* C18: each failed load of the selected fragment is counted in the error
\* counter and takes the machine out of FRAG_LOADING (to
\* FRAG_LOADING_WAITING_RETRY before a retry, or to the state in which the
\* failure is surfaced once the retries are used up).
C18_FailureCountedAndRetried ==
  [][ op'.name = "onError"
      => /\ rx'.fragLoadError > rx.fragLoadError
         /\ rx'.state # "FRAG_LOADING" ]_vars

----------------------------------------------------------------------------
(* Properties of the playlist errors (checked under SpecPlaylist)          *)

\* the ERROR events of the last step
ErrorsOut == {i \in 1..Len(out) : out[i].ev = "ERROR"}

\* C19 as claimed: every ERROR event for a manifest context is fatal and
\* every ERROR event for a level, audio-track or subtitle-track context is
\* not.
C19_FatalIffManifest ==
  \A i \in ErrorsOut : out[i].fatal <=> (out[i].ctype = "manifest")

\* C19: every ERROR event for a manifest context is fatal; an ERROR event
\* for a level, audio-track or subtitle-track context is fatal exactly when
\* it reports a parsing error (it then carries a reason), and is not fatal
\* when it reports a load error or a timeout.
C19_FatalByKind ==
  \A i \in ErrorsOut :
    IF out[i].details = "manifestParsingError"
    THEN out[i].fatal /\ out[i].reason # ""
    ELSE out[i].fatal <=> (out[i].ctype = "manifest")

\* a load of a level, audio-track or subtitle-track playlist has just failed
\* on the network and was reported as not fatal
C19_Witness ==
  /\ op.name \in {"xhrDone", "requestTimeout"}
  /\ \E i \in ErrorsOut :
       /\ out[i].ctype \in {"level", "audioTrack", "subtitleTrack"}
       /\ out[i].details # "manifestParsingError"
       /\ ~out[i].fatal

\* what the checks of loadsuccess, _handleMasterPlaylist and
\* _handlePlaylistLoaded reject: no marker, a master playlist without
\* variant, a media playlist without target duration
FailsValidation(body) ==
  \/ ~body.extm3u
  \/ ~body.media /\ body.nLevels = 0
  \/ body.media /\ body.targetduration = 0

\* the step being taken hands the body of a playlist request (not the bytes
\* of a segment index) to loadsuccess, and the body fails validation
InvalidPlaylistReceived ==
  /\ op'.name = "xhrDone"
  /\ engs[op'.e].callbacks = "playlist"
  /\ ~engs[op'.e].context.isSidxRequest
  /\ XhrEvent(engs[op'.e], 4, op'.arg).cb = "success"
  /\ FailsValidation(op'.data)

\* the step being taken emits exactly one ERROR event, fatal and with a reason
OneFatalError ==
  /\ EmittedCount("ERROR") = 1
  /\ \A i \in 1..Len(out') :
       out'[i].ev = "ERROR" => (out'[i].fatal /\ out'[i].reason # "")

NoTrackLoaded ==
  /\ EmittedCount("LEVEL_LOADED") = 0
  /\ EmittedCount("AUDIO_TRACK_LOADED") = 0
  /\ EmittedCount("SUBTITLE_TRACK_LOADED") = 0

----------------------------------------------------------------------------
(* Properties of the error detail codes (every handler of engine events)   *)

\* the detail codes of the ERROR events in a sequence of events
ErrorDetails(events) ==
  {events[i].details : i \in {j \in 1..Len(events) : events[j].ev = "ERROR"}}

\* what the error callback of engine e would report in the current state
HttpFailureDetails(e) ==
  ErrorDetails(Dispatch(World, e, "error", NoBody, TRUE).out)

\* C21: the detail code of the ERROR event emitted when a request times out
\* is never the detail code the same request would report for an HTTP
\* failure, whatever the type of its context.
C21_TimeoutDetailDiffers ==
  [][ op'.name = "requestTimeout" =>
        ErrorDetails(out') \cap HttpFailureDetails(op'.e) = {}
    ]_vars

----------------------------------------------------------------------------
(* A client issuing one playlist load, under every retry configuration     *)

PlTrackMaxRetry == 1    \* largest levelLoadingMaxRetry configured

OnPlaylistLoading(type, url) ==
  /\ Len(engs) = 0
  /\ \E openOk \in BOOLEAN :
    Commit(PlaylistLoadingHandler_load(World, url, PlaylistContext(type), openOk),
           OpUrl("onPlaylistLoading", url))

InitPlaylistRetry ==
  /\ engs = <<>>
  /\ frags = <<>>
  /\ \E m \in 0..PlMaxRetry, l \in 0..PlTrackMaxRetry :
       hls = [NoHlsConfig EXCEPT
                !.manifestLoadingTimeOut = PlTimeOut,
                !.manifestLoadingMaxRetry = m,
                !.manifestLoadingRetryDelay = PlRetryDelay,
                !.manifestLoadingMaxRetryTimeout = PlRetryDelay,
                !.levelLoadingTimeOut = PlTimeOut,
                !.levelLoadingMaxRetry = l,
                !.levelLoadingRetryDelay = PlRetryDelay,
                !.levelLoadingMaxRetryTimeout = PlRetryDelay]
  /\ InitHandlers

NextPlaylistRetry ==
  \/ \E type \in ContextTypes, url \in Urls : OnPlaylistLoading(type, url)
  \/ \E e \in EngIds : XhrHeaders(e)
  \/ \E e \in EngIds : XhrLoading(e)
  \/ \E e \in EngIds : XhrDone(e)
  \/ \E e \in EngIds : RequestTimeout(e)
  \/ \E e \in EngIds : RetryTimeout(e)
  \/ Tick

SpecPlaylistRetry == InitPlaylistRetry /\ [][NextPlaylistRetry]_vars

\* C22: a manifest load is handed to its engine with the configured manifest
\* retry budget; a level, audio-track or subtitle-track load is handed to its
\* engine with maxRetry = 0, is sent once at most and never waits for a
\* retry, and a failed response to it emits the ERROR event in the same step.
C22_RetryOnlyForManifest ==
  [][ /\ \A e \in 1..Len(engs') :
           IF engs'[e].context.type = "manifest"
             THEN engs'[e].config.maxRetry = hls.manifestLoadingMaxRetry
             ELSE /\ engs'[e].config.maxRetry = 0
                  /\ engs'[e].obs.sends <= 1
                  /\ engs'[e].retryTimeout = NoTimer
      /\ (op'.name = "xhrDone" /\ ~IsSuccess(op'.arg)
            /\ engs[op'.e].context.type # "manifest") =>
           "ERROR" \in {out'[i].ev : i \in 1..Len(out')}
    ]_vars

----------------------------------------------------------------------------
(* Properties of the segment-index resolution (checked under SpecPlaylist) *)

LoadedEvents ==
  {"MANIFEST_LOADED", "LEVEL_LOADED", "AUDIO_TRACK_LOADED", "SUBTITLE_TRACK_LOADED"}

\* the events of the last step that deliver a playlist parsed with its
\* segment-index ranges still needed, among the events named
DeliveredNeedingSidx(names) ==
  {i \in 1..Len(out) : /\ out[i].ev \in names
                       /\ out[i].levelDetails.exists
                       /\ out[i].levelDetails.needSidxRanges}

\* C23: a playlist parsed with its segment-index ranges still needed is
\* delivered by a MANIFEST_LOADED, LEVEL_LOADED or track-loaded event only in
\* the step in which the range request for its initialization segment
\* succeeds, and with the byte ranges of its fragments backfilled.
C23_PublishedAfterBackfill ==
  \A i \in DeliveredNeedingSidx(LoadedEvents) :
    /\ out[i].levelDetails.backfilled
    /\ op.name = "xhrDone" /\ IsSuccess(op.arg)
    /\ engs[op.e].context.isSidxRequest

----------------------------------------------------------------------------
(* Properties of failed key fetches (checked under SpecKey)                *)

\* C24: no key engine ever sends its request twice or waits for a retry; the
\* step in which a key request in flight is answered with a failure status,
\* or in which its timeout fires, leaves the engine with one send and nothing
\* pending, and emits exactly one event: a non-fatal ERROR for the fragment
\* of the request, with detail keyLoadError for the failure status and
\* keyLoadTimeOut for the timeout.
C24_KeyFailureNotResent ==
  [][ /\ \A e \in 1..Len(engs') :
           /\ engs'[e].obs.sends <= 1
           /\ engs'[e].retryTimeout = NoTimer
           /\ engs'[e].stats.retry = 0
      /\ ((op'.name = "xhrDone" /\ ~IsSuccess(op'.arg)) \/ op'.name = "requestTimeout") =>
           LET e == op'.e IN
           /\ engs'[e].obs.sends = 1
           /\ ~Active(engs'[e])
           /\ Len(out') = 1
           /\ out'[1].ev = "ERROR" /\ ~out'[1].fatal
           /\ out'[1].frag = engs[e].context.frag
           /\ out'[1].details = IF op'.name = "xhrDone" THEN "keyLoadError"
                                                        ELSE "keyLoadTimeOut"
    ]_vars

\* the only request of a key fetch has just been answered 503, a status the
\* engine retries when it has a budget, and the failure was reported at once
C24_Witness ==
  /\ op.name = "xhrDone" /\ op.arg = 503
  /\ engs[op.e].obs.sends = 1 /\ ~Active(engs[op.e])
  /\ Len(out) = 1 /\ out[1].ev = "ERROR" /\ out[1].details = "keyLoadError"
  /\ ~out[1].fatal

----------------------------------------------------------------------------
(* Fragment finders (m3u8/fragment-finders.ts)                             *)

\* Times are integers: positions and durations in one unit, program date
\* times in thousandths of it. A fragment of a list is named by its index,
\* NoFragment stands for null.
NoFragment == 0

\* new MediaFragment(), as the playlist parser fills it in
MediaFragment(sn, start, duration, deltaPTS) ==
  [sn |-> sn, start |-> start, duration |-> duration, deltaPTS |-> deltaPTS,
   programDateTime |-> start * 1000]

\* get endProgramDateTime
MediaFragment_endProgramDateTime(frag) ==
  frag.programDateTime + frag.duration * 1000

\* Math.min(maxFragLookUpTolerance, candidate.duration + (candidate.deltaPTS ? candidate.deltaPTS : 0))
candidateLookupTolerance(candidate, maxFragLookUpTolerance) ==
  Min(maxFragLookUpTolerance, candidate.duration + candidate.deltaPTS)

\* takes a fragment that ends, less the tolerance, at bufferEnd for a match
TooLow_exclusive(candidate, bufferEnd, tolerance) ==
  candidate.start + candidate.duration - tolerance < bufferEnd

\* candidate.start + candidate.duration - candidateLookupTolerance <= bufferEnd
TooLow(candidate, bufferEnd, tolerance) ==
  candidate.start + candidate.duration - tolerance <= bufferEnd

\* 0 if it matches, 1 if too low, -1 if too high
compareFragmentWithTolerance(candidate, bufferEnd, maxFragLookUpTolerance) ==
  LET tolerance == candidateLookupTolerance(candidate, maxFragLookUpTolerance)
  IN IF TooLow(candidate, bufferEnd, tolerance)
       THEN 1
       ELSE IF candidate.start - tolerance > bufferEnd /\ candidate.start # 0
              THEN -1
              ELSE 0

\* Math.min(...) * 1000: the tolerance in milliseconds
ToleranceMs_seconds(candidate, maxFragLookUpTolerance) ==
  candidateLookupTolerance(candidate, maxFragLookUpTolerance)

ToleranceMs(candidate, maxFragLookUpTolerance) ==
  candidateLookupTolerance(candidate, maxFragLookUpTolerance) * 1000

isPdtWithinToleranceTest(candidate, pdtBufferEnd, maxFragLookUpTolerance) ==
  LET tolerance == ToleranceMs(candidate, maxFragLookUpTolerance)
  IN MediaFragment_endProgramDateTime(candidate) - tolerance > pdtBufferEnd

\* BinarySearch.search(list, comparisonFn), comparisonFn given by its value on
\* each element of the list: the index of an element the
\* comparison answers 0 for, NoFragment if the search ends without one
BinarySearch_search(list, comparisonFn) ==
  LET search[minIndex \in 1..(Len(list) + 1), maxIndex \in 0..Len(list)] ==
        IF minIndex > maxIndex
          THEN NoFragment
          ELSE LET currentIndex == (minIndex + maxIndex) \div 2
                   comparisonResult == comparisonFn[list[currentIndex]]
               IN IF comparisonResult > 0
                    THEN search[currentIndex + 1, maxIndex]
                    ELSE IF comparisonResult < 0
                      THEN search[minIndex, currentIndex - 1]
                      ELSE currentIndex
  IN search[1, Len(list)]

\* the result of a call: the fragment returned, the error thrown
Returned(frag) == [frag |-> frag, threw |-> ""]
Thrown(error) == [frag |-> NoFragment, threw |-> error]

\* searches the whole list whatever the previous fragment
PreferNext_never(fragNext, fragments, bufferEnd, maxFragLookUpTolerance) == FALSE

\* fragNext && !compareFragmentWithTolerance(fragNext, bufferEnd, maxFragLookUpTolerance)
PreferNext(fragNext, fragments, bufferEnd, maxFragLookUpTolerance) ==
  /\ fragNext \in 1..Len(fragments)
  /\ compareFragmentWithTolerance(fragments[fragNext], bufferEnd, maxFragLookUpTolerance) = 0

\* fragPrevious is the sequence number of the previous fragment (0 = null)
findFragmentByPTS(fragPrevious, fragments, bufferEnd, maxFragLookUpTolerance) ==
  LET compare == [fragment \in {fragments[i] : i \in DOMAIN fragments} |->
        compareFragmentWithTolerance(fragment, bufferEnd, maxFragLookUpTolerance)]
      \* fragments[fragPrevious.sn - fragments[0].sn + 1]
      fragNext == IF fragPrevious # 0
                    THEN fragPrevious - fragments[1].sn + 2
                    ELSE NoFragment
  IN IF fragPrevious # 0 /\ fragments = <<>>
       THEN Thrown("TypeError")
       ELSE IF PreferNext(fragNext, fragments, bufferEnd, maxFragLookUpTolerance)
              THEN Returned(fragNext)
              ELSE Returned(BinarySearch_search(fragments, compare))

\* a number argument: Number.isFinite(x) is x.finite
Finite(value) == [finite |-> TRUE, value |-> value]
NotFinite == [finite |-> FALSE, value |-> 0]

\* scans from the fragment after the first
ScanFrom_second(fragments) == 2..Len(fragments)

\* for (let seg = 0; seg < fragments.length; ++seg)
ScanFrom(fragments) == 1..Len(fragments)

findFragmentByPDT(fragments, pdtVal, maxFragLookUpTolerance) ==
  IF fragments = <<>> \/ ~pdtVal.finite
    THEN Returned(NoFragment)
    ELSE IF pdtVal.value < fragments[1].programDateTime
      THEN Returned(NoFragment)
      ELSE IF pdtVal.value >= MediaFragment_endProgramDateTime(fragments[Len(fragments)])
        THEN Returned(NoFragment)
        ELSE LET within == {seg \in ScanFrom(fragments) :
                              isPdtWithinToleranceTest(fragments[seg], pdtVal.value,
                                                       maxFragLookUpTolerance)}
             IN IF within = {}
                  THEN Returned(NoFragment)
                  ELSE Returned(CHOOSE seg \in within : \A s \in within : seg <= s)

----------------------------------------------------------------------------
(* A caller of the fragment finders, with the arguments of one call        *)

FinderMaxFrags == 3       \* longest fragment list
FinderMaxDuration == 2    \* longest fragment
FinderMaxDelta == 1       \* largest deltaPTS of a fragment
FinderMaxTolerance == 3   \* largest maxFragLookUpTolerance
FinderMaxGap == 1         \* largest hole, and largest overlap, between neighbours
FinderFirstSN == 10       \* sequence number of the first fragment of a list

\* the lists of n fragments, increasing in start time, contiguous in sn
RECURSIVE FragmentListsOf(_)
FragmentListsOf(n) ==
  IF n = 0
    THEN {<<>>}
    ELSE UNION {
           {Append(l, MediaFragment(FinderFirstSN + n - 1, start, duration, deltaPTS)) :
              start \in (IF n = 1
                           THEN 0..1
                           ELSE {s \in (l[n-1].start + l[n-1].duration - FinderMaxGap)
                                        ..(l[n-1].start + l[n-1].duration + FinderMaxGap) :
                                   s > l[n-1].start}),
              duration \in 1..FinderMaxDuration,
              deltaPTS \in 0..FinderMaxDelta} :
           l \in FragmentListsOf(n - 1)}

\* the lists of at most n fragments
FragmentListsUpTo(n) == UNION {FragmentListsOf(k) : k \in 0..n}

\* one past the end of the longest list
FinderMaxPosition == 1 + FinderMaxFrags * (FinderMaxDuration + FinderMaxGap)

FinderCall(fn, fragPrevious, fragments, bufferEnd, pdtVal, maxFragLookUpTolerance) ==
  [fn |-> fn, done |-> FALSE, fragPrevious |-> fragPrevious, fragments |-> fragments,
   bufferEnd |-> bufferEnd, pdtVal |-> pdtVal,
   maxFragLookUpTolerance |-> maxFragLookUpTolerance,
   result |-> Returned(NoFragment)]

PreviousFragments ==
  {0} \cup (FinderFirstSN - 1)..(FinderFirstSN + FinderMaxFrags - 1)

ProgramDateTimes ==
  {NotFinite} \cup {Finite(500 * k) : k \in 0..(2 * FinderMaxPosition)}

\* no engine, no handler state: the finders are pure
NoProgram ==
  /\ engs = <<>>
  /\ frags = <<>>
  /\ hls = NoHlsConfig
  /\ loaders = [t \in ContextTypes |-> 0]
  /\ kLoaders = [t \in LoaderSlots |-> 0]
  /\ fLoaders = [t \in FragTypes |-> 0]
  /\ keyUrl = ""
  /\ keyData = ""
  /\ rx = MediaFragmentReceiver_constructor
  /\ segments = <<>>
  /\ out = <<>>
  /\ threw = ""
  /\ op = Op("init", 0, 0)

Return(result) ==
  /\ call' = [call EXCEPT !.done = TRUE, !.result = result]
  /\ UNCHANGED <<engs, loaders, kLoaders, fLoaders, keyUrl, keyData, frags, out,
                 threw, op, rx, segments, hls>>

FindFragmentByPTS ==
  /\ call.fn = "findFragmentByPTS" /\ ~call.done
  /\ Return(findFragmentByPTS(call.fragPrevious, call.fragments, call.bufferEnd,
                              call.maxFragLookUpTolerance))

FindFragmentByPDT ==
  /\ call.fn = "findFragmentByPDT" /\ ~call.done
  /\ Return(findFragmentByPDT(call.fragments, call.pdtVal, call.maxFragLookUpTolerance))

InitFinder ==
  /\ NoProgram
  /\ \E fragments \in FragmentListsUpTo(FinderMaxFrags), tolerance \in 0..FinderMaxTolerance :
       \/ \E fragPrevious \in PreviousFragments, bufferEnd \in 0..FinderMaxPosition :
            call = FinderCall("findFragmentByPTS", fragPrevious, fragments, bufferEnd,
                              NotFinite, tolerance)
       \/ \E pdtVal \in ProgramDateTimes :
            call = FinderCall("findFragmentByPDT", 0, fragments, 0, pdtVal, tolerance)

NextFinder ==
  \/ FindFragmentByPTS
  \/ FindFragmentByPDT

SpecFinder == InitFinder /\ [][NextFinder]_vars

----------------------------------------------------------------------------
(* Properties of the fragment finders (checked under SpecFinder)           *)

\* the tolerance-adjusted interval of a fragment contains the position
AdjustedIntervalContains(frag, position, maxFragLookUpTolerance) ==
  LET tolerance == Min(maxFragLookUpTolerance, frag.duration + frag.deltaPTS)
  IN /\ frag.start - tolerance <= position
     /\ position < frag.start + frag.duration - tolerance

\* the fragments of the call whose tolerance-adjusted interval contains the
\* position asked for
Containing ==
  {i \in 1..Len(call.fragments) :
     AdjustedIntervalContains(call.fragments[i], call.bufferEnd,
                              call.maxFragLookUpTolerance)}

LastFragment == call.fragments[Len(call.fragments)]

\* a finished search by position without previous fragment, in a list that
\* is not empty
SearchedByPosition ==
  /\ call.fn = "findFragmentByPTS" /\ call.done
  /\ call.fragPrevious = 0
  /\ call.fragments # <<>>

\* each fragment starts where the one before it ends
Contiguous(fragments) ==
  \A i \in 2..Len(fragments) :
    fragments[i].start = fragments[i-1].start + fragments[i-1].duration

\* the tolerance is the effective tolerance of every fragment
ToleranceFits(fragments, maxFragLookUpTolerance) ==
  \A i \in 1..Len(fragments) :
    maxFragLookUpTolerance <= fragments[i].duration + fragments[i].deltaPTS

\* C25 as claimed: for every list monotonic in start time, every tolerance
\* and every bufferEnd from the start of the first fragment to before the end
\* of the last, the search without previous fragment returns a fragment, the
\* only one whose tolerance-adjusted interval contains bufferEnd.
C25_AlwaysFindsContaining ==
  (SearchedByPosition
     /\ call.fragments[1].start <= call.bufferEnd
     /\ call.bufferEnd < LastFragment.start + LastFragment.duration)
  => /\ call.result.frag # NoFragment
     /\ Containing = {call.result.frag}

\* C25: for every contiguous list, every tolerance that is at most the
\* duration plus deltaPTS of each fragment, and every bufferEnd from the
\* start of the first fragment to before the end of the last fragment less
\* the tolerance, the search without previous fragment returns a fragment,
\* the only one whose tolerance-adjusted interval contains bufferEnd; from
\* there to the end of the last fragment it returns none.
C25_FindsContaining ==
  (SearchedByPosition
     /\ Contiguous(call.fragments)
     /\ ToleranceFits(call.fragments, call.maxFragLookUpTolerance)
     /\ call.fragments[1].start <= call.bufferEnd
     /\ call.bufferEnd < LastFragment.start + LastFragment.duration)
  => IF call.bufferEnd < LastFragment.start + LastFragment.duration
                           - call.maxFragLookUpTolerance
       THEN /\ call.result.frag # NoFragment
            /\ Containing = {call.result.frag}
       ELSE /\ call.result.frag = NoFragment
            /\ Containing = {}

\* a search with a tolerance found the second of three fragments, bufferEnd
\* lying before the start of that fragment
C25_Witness ==
  /\ SearchedByPosition
  /\ Contiguous(call.fragments)
  /\ ToleranceFits(call.fragments, call.maxFragLookUpTolerance)
  /\ Len(call.fragments) = 3
  /\ call.maxFragLookUpTolerance > 0
  /\ call.result.frag = 2
  /\ call.bufferEnd < call.fragments[2].start

\* a finished search by position whose previous fragment has a successor in
\* the list that the comparison answers 0 for
SuccessorOf(fragPrevious, fragments) == fragPrevious - fragments[1].sn + 2

SuccessorMatches ==
  /\ call.fn = "findFragmentByPTS" /\ call.done
  /\ call.fragPrevious # 0
  /\ call.fragments # <<>>
  /\ SuccessorOf(call.fragPrevious, call.fragments) \in 1..Len(call.fragments)
  /\ compareFragmentWithTolerance(
       call.fragments[SuccessorOf(call.fragPrevious, call.fragments)],
       call.bufferEnd, call.maxFragLookUpTolerance) = 0

\* what the search of the whole list returns for the list, bufferEnd and
\* tolerance of the call
FullSearch ==
  findFragmentByPTS(0, call.fragments, call.bufferEnd, call.maxFragLookUpTolerance)

\* C26 as claimed: whenever the successor of the previous fragment satisfies
\* the comparison, the search returns that successor, and the search of the
\* whole list returns the same fragment.
C26_SuccessorIsFullSearch ==
  SuccessorMatches =>
    /\ call.result = Returned(SuccessorOf(call.fragPrevious, call.fragments))
    /\ call.result = FullSearch

\* C26: whenever the successor of the previous fragment satisfies the
\* comparison, the search returns that successor; the search of the whole
\* list returns the same fragment when the list is contiguous and the
\* tolerance is at most the duration plus deltaPTS of each fragment.
C26_SuccessorFastPath ==
  SuccessorMatches =>
    /\ call.result = Returned(SuccessorOf(call.fragPrevious, call.fragments))
    /\ (Contiguous(call.fragments)
          /\ ToleranceFits(call.fragments, call.maxFragLookUpTolerance))
       => call.result = FullSearch

\* the successor of the previous fragment, the last of three fragments, was
\* returned for a position before its start
C26_Witness ==
  /\ SuccessorMatches
  /\ Len(call.fragments) = 3
  /\ call.fragPrevious = call.fragments[2].sn
  /\ call.result.frag = 3
  /\ call.bufferEnd < call.fragments[3].start
  /\ call.maxFragLookUpTolerance > 0

\* a finished search by program date time
SearchedByPDT == call.fn = "findFragmentByPDT" /\ call.done

\* the end of the tolerance-adjusted program-date-time interval of a fragment
AdjustedEndPDT(frag, maxFragLookUpTolerance) ==
  frag.programDateTime + frag.duration * 1000
    - Min(maxFragLookUpTolerance, frag.duration + frag.deltaPTS) * 1000

\* the start of that interval
AdjustedStartPDT(frag, maxFragLookUpTolerance) ==
  frag.programDateTime
    - Min(maxFragLookUpTolerance, frag.duration + frag.deltaPTS) * 1000

\* the fragments of the call whose tolerance-adjusted program-date-time
\* interval contains the time asked for
ContainingPDT ==
  {i \in 1..Len(call.fragments) :
     /\ AdjustedStartPDT(call.fragments[i], call.maxFragLookUpTolerance) <= call.pdtVal.value
     /\ call.pdtVal.value < AdjustedEndPDT(call.fragments[i], call.maxFragLookUpTolerance)}

\* the fragments whose tolerance-adjusted end exceeds the time asked for
EndingAfterPDT ==
  {i \in 1..Len(call.fragments) :
     AdjustedEndPDT(call.fragments[i], call.maxFragLookUpTolerance) > call.pdtVal.value}

\* the time asked for is one the search answers 'not found' for outright
OutsidePDT ==
  \/ call.fragments = <<>>
  \/ ~call.pdtVal.finite
  \/ call.pdtVal.value < call.fragments[1].programDateTime
  \/ call.pdtVal.value >= LastFragment.programDateTime + LastFragment.duration * 1000

\* C27 as claimed: the search by program date time returns no fragment for
\* an empty list, a time that is not finite, a time before the first
\* fragment's or at or after the end of the last; for a time inside exactly
\* one fragment's tolerance-adjusted interval it returns that fragment, the
\* first of the list whose tolerance-adjusted end exceeds the time.
C27_FindsContainingPDT ==
  SearchedByPDT =>
    /\ call.result.threw = ""
    /\ OutsidePDT => call.result.frag = NoFragment
    /\ (~OutsidePDT /\ Cardinality(ContainingPDT) = 1) =>
         /\ ContainingPDT = {call.result.frag}
         /\ call.result.frag \in EndingAfterPDT
         /\ \A i \in EndingAfterPDT : call.result.frag <= i

\* C27: the search by program date time returns no fragment for an empty
\* list, a time that is not finite, a time before the first fragment's or at
\* or after the end of the last; for any other time it returns the first
\* fragment of the list whose tolerance-adjusted end exceeds the time, none
\* if there is no such fragment; when the tolerance is at most the duration
\* plus deltaPTS of each fragment and the time lies inside exactly one
\* fragment's tolerance-adjusted interval, that fragment is the one returned.
C27_FindsByPDT ==
  SearchedByPDT =>
    /\ call.result.threw = ""
    /\ OutsidePDT => call.result.frag = NoFragment
    /\ ~OutsidePDT =>
         IF EndingAfterPDT = {}
           THEN call.result.frag = NoFragment
           ELSE /\ call.result.frag \in EndingAfterPDT
                /\ \A i \in EndingAfterPDT : call.result.frag <= i
    /\ (~OutsidePDT /\ Cardinality(ContainingPDT) = 1
          /\ ToleranceFits(call.fragments, call.maxFragLookUpTolerance)) =>
         ContainingPDT = {call.result.frag}

\* a time half-way into the second of three fragments, with a tolerance, was
\* found in that fragment
C27_Witness ==
  /\ SearchedByPDT /\ ~OutsidePDT
  /\ Len(call.fragments) = 3
  /\ call.maxFragLookUpTolerance > 0
  /\ ContainingPDT = {2}
  /\ call.result.frag = 2
  /\ call.pdtVal.value = call.fragments[2].programDateTime + 500

----------------------------------------------------------------------------
(* MediaVariant (m3u8/media-variant.ts) and the refresh of a level         *)

\* new MediaVariant(baseUrl)
MediaVariant_constructor ==
  [PTSKnown |-> FALSE, fragments |-> <<>>, live |-> TRUE, targetduration |-> 0,
   startSN |-> 0, endSN |-> 0, needSidxRanges |-> FALSE, exists |-> TRUE,
   backfilled |-> FALSE]

\* no variant (null)
NoVariant == [MediaVariant_constructor EXCEPT !.exists = FALSE]

\* a fragment of a parsed playlist: no timing data derived yet
ParsedFragment(sn) == [sn |-> sn, startPTS |-> Undefined]

\* M3U8Parser.parseLevelPlaylist, on the variant it has constructed: a media
\* playlist with media sequence number startSN and count segments
M3U8Parser_parseLevelPlaylist(levelDetails, startSN, count) ==
  [levelDetails EXCEPT
     !.fragments = [i \in 1..count |-> ParsedFragment(startSN + i - 1)],
     !.startSN = startSN,
     !.endSN = startSN + count - 1,
     !.targetduration = 1]

\* LevelHelper.updateFragPTSDTS(level.details, frag, startPTS, ...)
LevelHelper_updateFragPTSDTS(details, i, startPTS) ==
  [details EXCEPT !.fragments[i].startPTS = startPTS, !.PTSKnown = TRUE]

VariantFirstSN == 10      \* lowest media sequence number of a playlist
VariantMaxSlide == 3      \* how far the window of a live playlist may have moved
VariantMaxFrags == 6      \* most segments in a playlist
VariantMaxLoads == 2      \* loads of the playlist in a run
VariantMaxPTS == 1        \* largest start PTS a parsed fragment reports

\* call.levelDetails is the variant _handleTrackOrLevelPlaylist holds,
\* call.level the variant delivered by the last LEVEL_LOADED, which the
\* receiver updates
Step(name, c) ==
  /\ call' = c
  /\ op' = Op(name, 0, 0)
  /\ threw' = ""
  /\ UNCHANGED <<engs, loaders, kLoaders, fLoaders, keyUrl, keyData, frags,
                 rx, segments, hls>>

\* const levelDetails = createVariantFromM3u8(...): the parser constructs
\* the variant
NewMediaVariant ==
  /\ call.fn = "levelLoad" /\ call.phase = "idle"
  /\ call.loads < VariantMaxLoads
  /\ out' = <<>>
  /\ Step("newMediaVariant",
          [call EXCEPT !.phase = "constructed", !.loads = @ + 1,
                       !.levelDetails = MediaVariant_constructor])

\* ... and fills it in from the text of the playlist
ParseLevelPlaylist(startSN, count) ==
  /\ call.fn = "levelLoad" /\ call.phase = "constructed"
  /\ out' = <<>>
  /\ Step("parseLevelPlaylist",
          [call EXCEPT !.phase = "parsed",
                       !.levelDetails =
                          M3U8Parser_parseLevelPlaylist(@, startSN, count)])

\* this._handlePlaylistLoaded(response, stats, context, networkDetails) for
\* a level context
HandlePlaylistLoaded ==
  /\ call.fn = "levelLoad" /\ call.phase = "parsed"
  /\ out' = PlaylistLoadingHandler_handlePlaylistLoaded(World,
              [PlaylistContext("level") EXCEPT !.levelDetails = call.levelDetails]).out
  /\ Step("handlePlaylistLoaded",
          [call EXCEPT !.phase = "idle", !.level = call.levelDetails])

\* onFragParsingData of the receiver, for fragment i of the level
UpdateFragPTSDTS(i, startPTS) ==
  /\ call.fn = "levelLoad" /\ call.phase = "idle"
  /\ i \in 1..Len(call.level.fragments)
  /\ call.level.fragments[i].startPTS = Undefined
  /\ out' = <<>>
  /\ Step("updateFragPTSDTS",
          [call EXCEPT !.level = LevelHelper_updateFragPTSDTS(@, i, startPTS)])

InitVariant ==
  /\ NoProgram
  /\ call = [fn |-> "levelLoad", done |-> FALSE, phase |-> "idle", loads |-> 0,
             levelDetails |-> NoVariant, level |-> NoVariant]

NextVariant ==
  \/ NewMediaVariant
  \/ \E startSN \in VariantFirstSN..(VariantFirstSN + VariantMaxSlide),
        count \in 0..VariantMaxFrags : ParseLevelPlaylist(startSN, count)
  \/ HandlePlaylistLoaded
  \/ \E i \in 1..VariantMaxFrags, startPTS \in 1..VariantMaxPTS :
       UpdateFragPTSDTS(i, startPTS)

SpecVariant == InitVariant /\ [][NextVariant]_vars

\* the sequence numbers of the fragments of a variant, in order
SequenceNumbers(details) ==
  [i \in 1..Len(details.fragments) |-> details.fragments[i].sn]

\* C28: the variant a LEVEL_LOADED event delivers for a playlist that was
\* loaded before has the sequence numbers of the new playlist, and each of
\* its fragments whose sequence number was in the variant delivered before
\* holds the start PTS derived for that fragment there.
C28_RefreshKeepsTiming ==
  [][ (op'.name = "handlePlaylistLoaded" /\ call.level.exists) =>
        /\ Len(out') = 1 /\ out'[1].ev = "LEVEL_LOADED"
        /\ SequenceNumbers(out'[1].levelDetails) =
             [i \in 1..Len(call.levelDetails.fragments) |->
                call.levelDetails.startSN + i - 1]
        /\ \A i \in 1..Len(out'[1].levelDetails.fragments) :
             \A j \in 1..Len(call.level.fragments) :
               call.level.fragments[j].sn = out'[1].levelDetails.fragments[i].sn
                 => out'[1].levelDetails.fragments[i].startPTS
                      = call.level.fragments[j].startPTS
    ]_vars

\* C29: every variant, the one being parsed and the one delivered, has as
\* many fragments as endSN - startSN + 1, with sequence numbers that go up
\* one by one from startSN.
C29_ContiguousSequenceNumbers ==
  \A details \in {call.levelDetails, call.level} :
    details.exists =>
      /\ details.endSN - details.startSN + 1 = Len(details.fragments)
      /\ \A i \in 1..Len(details.fragments) :
           details.fragments[i].sn = details.startSN + i - 1

----------------------------------------------------------------------------
(* MediaFragment: decryption data of a fragment                            *)

\* A segment number is written in base 256, least significant digit first,
\* so that numbers of more than 32 bits can be given.
SNDigits == 5

\* ToInt32(segmentNumber), the operand of >>: the low 32 bits, as a signed
\* number
ToInt32(segmentNumber) ==
  segmentNumber[1] + 256 * segmentNumber[2] + 65536 * segmentNumber[3]
    + 16777216 * (IF segmentNumber[4] >= 128 THEN segmentNumber[4] - 256
                                              ELSE segmentNumber[4])

\* x >> n (sign-propagating) for a signed 32-bit x
ShiftRight(x, n) == x \div (2 ^ n)

\* x & 0xff
LowByte(x) == x % 256

\* puts the least significant byte first
ByteShift_littleEndian(i) == 8 * (i - 12)

\* 8 * (15 - i)
ByteShift(i) == 8 * (15 - i)

\* MediaFragment._createInitializationVector; uint8View[i] is element i + 1
MediaFragment_createInitializationVector(segmentNumber) ==
  [k \in 1..16 |->
     IF k - 1 >= 12
       THEN LowByte(ShiftRight(ToInt32(segmentNumber), ByteShift(k - 1)))
       ELSE 0]

NoIV == <<>>              \* levelkey.iv = null
NoLevelKey == [exists |-> FALSE, method |-> "", uri |-> "", iv |-> NoIV]

\* the LevelKey of the playlist: EXT-X-KEY with METHOD, URI and IV
LevelKey(method, uri, iv) ==
  [exists |-> TRUE, method |-> method, uri |-> uri, iv |-> iv]

\* MediaFragment._createDecryptDataFromLevelkey
MediaFragment_createDecryptDataFromLevelkey(levelkey, segmentNumber) ==
  IF levelkey.exists /\ levelkey.method # "" /\ levelkey.uri # "" /\ levelkey.iv = NoIV
    THEN LevelKey(levelkey.method, levelkey.uri,
                  MediaFragment_createInitializationVector(segmentNumber))
    ELSE levelkey

\* the digits a segment number is made of: the ends and the middle of a byte
SNDigitValues == {0, 1, 127, 128, 255}

SegmentNumbers == [1..SNDigits -> SNDigitValues]

\* the IV of an EXT-X-KEY tag
ExplicitIV == [k \in 1..16 |-> 16 * k - 1]

LevelKeys ==
  {NoLevelKey} \cup
  {LevelKey(method, uri, iv) :
     method \in {"", "AES-128"}, uri \in {"", "k1"}, iv \in {NoIV, ExplicitIV}}

\* get decryptdata, first use
GetDecryptdata ==
  /\ call.fn = "decryptdata" /\ ~call.done
  /\ call' = [call EXCEPT !.done = TRUE,
                          !.decryptdata =
                             MediaFragment_createDecryptDataFromLevelkey(
                               call.levelkey, call.sn)]
  /\ UNCHANGED <<engs, loaders, kLoaders, fLoaders, keyUrl, keyData, frags, out,
                 threw, op, rx, segments, hls>>

InitDecrypt ==
  /\ NoProgram
  /\ \E levelkey \in LevelKeys, sn \in SegmentNumbers :
       call = [fn |-> "decryptdata", done |-> FALSE, levelkey |-> levelkey,
               sn |-> sn, decryptdata |-> NoLevelKey]

NextDecrypt == GetDecryptdata

SpecDecrypt == InitDecrypt /\ [][NextDecrypt]_vars

\* the decryption data of the fragment has been asked for
DecryptdataCreated == call.fn = "decryptdata" /\ call.done

\* C30: for a playlist key with method and URI and no IV, the fragment's IV
\* has 16 bytes, the first 12 are zero and the last 4 are the sequence number
\* modulo 2^32 with the most significant byte first; an IV given by the
\* playlist is the fragment's IV as it is.
C30_InitializationVector ==
  DecryptdataCreated =>
    /\ (call.levelkey.exists /\ call.levelkey.method # "" /\ call.levelkey.uri # ""
          /\ call.levelkey.iv = NoIV) =>
         /\ Len(call.decryptdata.iv) = 16
         /\ \A k \in 1..12 : call.decryptdata.iv[k] = 0
         /\ \A k \in 13..16 : call.decryptdata.iv[k] = call.sn[17 - k]
         /\ call.decryptdata.method = call.levelkey.method
         /\ call.decryptdata.uri = call.levelkey.uri
    /\ (call.levelkey.exists /\ call.levelkey.iv # NoIV) =>
         call.decryptdata.iv = call.levelkey.iv

\* an IV was made for a sequence number beyond 2^32 whose bit 31 is set
C30_Witness ==
  /\ DecryptdataCreated
  /\ call.levelkey.exists /\ call.levelkey.iv = NoIV
  /\ call.levelkey.method # "" /\ call.levelkey.uri # ""
  /\ call.sn[5] > 0 /\ call.sn[4] >= 128 /\ call.sn[1] = 1
  /\ call.decryptdata.iv[13] = call.sn[4] /\ call.decryptdata.iv[16] = 1

\* ---------------------------------------------------------------------------
\* MediaFragment.byteRange and the segment-index backfill
\* ---------------------------------------------------------------------------

ByteRangeMaxFrags == 2
ByteRangeMaxLength == 2
ByteRangeMaxOffset == 1
ByteRangeMaxRefs == 3
ByteRangeMaxBackfills == 2

\* a raw range string "<length>" or "<length>@<offset>"; NoRaw is the unset
\* (or empty) string
NoRaw == [text |-> FALSE, length |-> 0, at |-> FALSE, offset |-> 0]

RawByteRange(length, at, offset) ==
  [text |-> TRUE, length |-> length, at |-> at, offset |-> offset]

\* String(length) + '@' + String(offset)
RawOf(length, offset) == RawByteRange(length, TRUE, offset)

\* this._byteRange = null
NoByteRange == <<>>

\* the fields of a MediaFragment the byteRange getter works on
RangedFragment(rawByteRange, lastByteRangeEndOffset) ==
  [rawByteRange |-> rawByteRange, byteRange |-> NoByteRange,
   lastByteRangeEndOffset |-> lastByteRangeEndOffset]

\* context.levelDetails.initSegment of a playlist without EXT-X-MAP
NoInitSegment == [RangedFragment(NoRaw, 0) EXCEPT !.rawByteRange.length = -1]

\* _parseByteRange(): [start, end) of the raw string; a string without '@'
\* starts where the previous range ended
MediaFragment_parseByteRange(frag) ==
  IF ~frag.rawByteRange.text
    THEN frag
    ELSE LET start == IF ~frag.rawByteRange.at
                        THEN frag.lastByteRangeEndOffset
                        ELSE frag.rawByteRange.offset
         IN [frag EXCEPT !.byteRange = <<start, frag.rawByteRange.length + start>>]

\* if (!this._byteRange)
Unparsed_always(frag) == TRUE

Unparsed(frag) == frag.byteRange = NoByteRange

\* get byteRange (): the fragment after the read
MediaFragment_byteRange_frag(frag) ==
  IF ~frag.rawByteRange.text
    THEN frag
    ELSE IF Unparsed(frag) THEN MediaFragment_parseByteRange(frag) ELSE frag

\* get byteRange (): the value read
MediaFragment_byteRange(frag) ==
  IF ~frag.rawByteRange.text
    THEN NoByteRange
    ELSE MediaFragment_byteRange_frag(frag).byteRange

\* sidxInfo.references.forEach(...) of _handleSidxRequest: the fragments
\* after the rewrite; a reference beyond the last fragment ends the loop with a
\* TypeError (frag is undefined)
RECURSIVE BackfillFragments(_, _, _)
BackfillFragments(fragments, references, index) ==
  IF index > Len(references) \/ index > Len(fragments)
    THEN fragments
    ELSE LET frag == MediaFragment_byteRange_frag(fragments[index])
             segRefInfo == references[index]
             rewritten ==
               IF MediaFragment_byteRange(fragments[index]) = NoByteRange
                 THEN [frag EXCEPT !.rawByteRange =
                         RawOf(1 + segRefInfo.end - segRefInfo.start, segRefInfo.start)]
                 ELSE frag
         IN BackfillFragments([fragments EXCEPT ![index] = rewritten],
                              references, index + 1)

\* _handleSidxRequest(response, context) on the byte ranges of
\* context.levelDetails
BackfillByteRanges(details, references, moovEndOffset) ==
  LET fragments == BackfillFragments(details.fragments, references, 1)
  IN IF Len(references) > Len(details.fragments)
       THEN [details EXCEPT !.fragments = fragments, !.threw = "TypeError"]
       ELSE IF details.initSegment = NoInitSegment
         THEN [details EXCEPT !.fragments = fragments, !.threw = "TypeError"]
         ELSE [details EXCEPT !.fragments = fragments, !.threw = "",
                              !.initSegment.rawByteRange = RawOf(moovEndOffset, 0)]

\* the raw strings a playlist gives a fragment
RawByteRanges ==
  {NoRaw} \cup {RawByteRange(l, FALSE, 0) : l \in 1..ByteRangeMaxLength}
          \cup {RawOf(l, o) : l \in 1..ByteRangeMaxLength, o \in 0..ByteRangeMaxOffset}

\* the references of a segment index
SegmentRefs ==
  {[start |-> s, end |-> s + d] : s \in 0..ByteRangeMaxOffset, d \in 0..1}

\* what is read of fragment i; index Len(fragments) + 1 is the initSegment
RangedAt(details, i) ==
  IF i <= Len(details.fragments) THEN details.fragments[i] ELSE details.initSegment

\* the first non-null value computed for each fragment
Noted(first, i, value) ==
  IF first[i] = NoByteRange THEN [first EXCEPT ![i] = value] ELSE first

RECURSIVE NotedAll(_, _, _, _)
NotedAll(first, before, n, i) ==
  IF i > n
    THEN first
    ELSE NotedAll(Noted(first, i, MediaFragment_byteRange(before[i])), before, n, i + 1)

\* a read of frag.byteRange, frag the i-th fragment or the initSegment
ReadByteRange(i) ==
  /\ call.fn = "byteRange"
  /\ i \in 1..(Len(call.details.fragments) + 1)
  /\ RangedAt(call.details, i) # NoInitSegment
  /\ LET frag == MediaFragment_byteRange_frag(RangedAt(call.details, i))
         value == MediaFragment_byteRange(RangedAt(call.details, i))
     IN call' = [call EXCEPT
                   !.details = IF i <= Len(call.details.fragments)
                                 THEN [@ EXCEPT !.fragments[i] = frag]
                                 ELSE [@ EXCEPT !.initSegment = frag],
                   !.result = value,
                   !.first = Noted(@, i, value)]
  /\ op' = Op("byteRange", i, 0)
  /\ threw' = ""
  /\ UNCHANGED <<engs, loaders, kLoaders, fLoaders, keyUrl, keyData, frags, out,
                 rx, segments, hls>>

\* the response of the segment-index request arrives
HandleSidxRequest(references, moovEndOffset) ==
  /\ call.fn = "byteRange"
  /\ call.backfills < ByteRangeMaxBackfills
  /\ LET details == BackfillByteRanges(call.details, references, moovEndOffset)
         n == Min(Len(references), Len(call.details.fragments))
     IN /\ call' = [call EXCEPT !.details = details,
                                !.backfills = @ + 1,
                                !.result = NoByteRange,
                                !.first = NotedAll(@, call.details.fragments, n, 1)]
        /\ threw' = details.threw
  /\ op' = Op("handleSidxRequest", 0, 0)
  /\ UNCHANGED <<engs, loaders, kLoaders, fLoaders, keyUrl, keyData, frags, out,
                 rx, segments, hls>>

InitByteRange ==
  /\ NoProgram
  /\ \E n \in 1..ByteRangeMaxFrags :
     \E raws \in [1..n -> RawByteRanges], last \in 0..ByteRangeMaxOffset,
        init \in {NoInitSegment} \cup {RangedFragment(r, 0) : r \in RawByteRanges} :
       call = [fn |-> "byteRange", done |-> FALSE,
               details |-> [fragments |-> [i \in 1..n |-> RangedFragment(raws[i], last)],
                            initSegment |-> init, threw |-> ""],
               backfills |-> 0, result |-> NoByteRange,
               first |-> [i \in 1..(n + 1) |-> NoByteRange]]

NextByteRange ==
  \/ \E i \in 1..(ByteRangeMaxFrags + 1) : ReadByteRange(i)
  \/ \E k \in 0..ByteRangeMaxRefs :
     \E references \in [1..k -> SegmentRefs], moovEndOffset \in 1..ByteRangeMaxLength :
       HandleSidxRequest(references, moovEndOffset)

SpecByteRange == InitByteRange /\ [][NextByteRange]_vars

\* C31: once a read of byteRange of a fragment (or of the initialization
\* segment) has given a non-null value, every later read of that fragment gives
\* the same value, also after a segment-index backfill has rewritten raw range
\* strings
C31_ByteRangeStable ==
  [][ (op'.name = "byteRange" /\ call.first[op'.e] # NoByteRange)
        => call'.result = call.first[op'.e] ]_vars

\* the initialization segment is read after a backfill gave it another raw
\* string than the one its range was computed from
C31_Witness ==
  /\ call.fn = "byteRange" /\ op.name = "byteRange"
  /\ op.e = Len(call.details.fragments) + 1
  /\ call.backfills > 0
  /\ call.result # NoByteRange /\ call.result = call.first[op.e]
  /\ MediaFragment_parseByteRange(call.details.initSegment).byteRange # call.result

\* ---------------------------------------------------------------------------
\* fragPrevious of the receiver
\* ---------------------------------------------------------------------------

\* the step being taken emits FRAG_BUFFERED for fragment f from a machine
\* that was parsing it or had parsed it
BufferedAfterParsing(f) ==
  /\ rx.state \in {"PARSING", "PARSED"}
  /\ rx.fragCurrent = f
  /\ \E i \in 1..Len(out') : out'[i].ev = "FRAG_BUFFERED" /\ out'[i].frag = f

\* the step being taken backtracks fragment f: it is marked backtracked and
\* the machine returns to IDLE without reporting it buffered
Backtracking(f) ==
  /\ op'.name = "onFragParsingData"
  /\ rx.state = "PARSING" /\ rx'.state = "IDLE"
  /\ rx.fragCurrent = f
  /\ ~frags[f].backtracked /\ frags'[f].backtracked
  /\ EmittedCount("FRAG_BUFFERED") = 0

NextReceiverLive ==
  \/ StartLoad
  \/ \E f \in 1..RxFragCount : SelectFragment(f)
  \/ \E f \in 1..RxFragCount : OnFragLoaded(f)
  \/ \E f \in 1..RxFragCount : OnFragParsingData(f)
  \/ \E f \in 1..RxFragCount : OnFragParsed(f)
  \/ OnBufferAppended

\* the buffer controller acknowledges every append it was handed
SpecReceiverLive ==
  InitReceiver /\ [][NextReceiverLive]_vars /\ WF_vars(OnBufferAppended)

\* C33: a machine that received parse-complete in PARSING and whose appends
\* are all acknowledged does not stay in PARSED: it emits FRAG_BUFFERED for
\* the fragment and reaches IDLE.
C33_ParsedLeadsToBuffered ==
  (rx.state = "PARSED")
    ~> (rx.state = "IDLE" /\ Emitted("FRAG_BUFFERED") /\ rx.fragPrevious = rx.fragCurrent)

\* the same, for a machine that has a media element or a media buffer
C33_ParsedLeadsToBufferedWithMedia ==
  (rx.state = "PARSED" /\ (rx.media \/ rx.mediaBuffer))
    ~> (rx.state = "IDLE" /\ Emitted("FRAG_BUFFERED") /\ rx.fragPrevious = rx.fragCurrent)

\* ---------------------------------------------------------------------------
\* The key cache under concurrent key loads
\* ---------------------------------------------------------------------------

\* C34: the key bytes attached to a fragment's decryption reference, by a
\* fetch or from the cache, are the bytes a fetch of the fragment's own key URI
\* returned, whatever the interleaving of key loads of the lanes.
C34_OwnKeyAttached ==
  \A f \in 1..Len(frags) : frags[f].key \in {"", frags[f].uri}

\* ---------------------------------------------------------------------------
\* Events arriving at a machine that is not running
\* ---------------------------------------------------------------------------

\* C35: a flush-complete acknowledgment or an emergency-abort signal does not
\* move a machine that is in STOPPED, ENDED or ERROR: it stays in its state
\* until it is started.
C35_StoppedStaysStopped ==
  [][ (/\ rx.state \in {"STOPPED", "ENDED", "ERROR"}
       /\ op'.name \in {"onBufferFlushed", "onFragLoadEmergencyAborted"})
      => rx'.state = rx.state ]_vars

\* ---------------------------------------------------------------------------
\* FRAG_LOADED events for other fragments than the one being loaded
\* ---------------------------------------------------------------------------

\* a main playlist of two fragments, or one fragment of each lane
LaneFragments ==
  { <<[type |-> "main", sn |-> StartSN, level |-> 0, backtracked |-> FALSE,
       dropped |-> 0, bitrateTest |-> FALSE],
      [type |-> t, sn |-> sn, level |-> l, backtracked |-> FALSE,
       dropped |-> 0, bitrateTest |-> FALSE]>> :
      t \in {"main", "audio"}, sn \in {StartSN, StartSN + 1}, l \in 0..1 }

InitReceiverLanes ==
  /\ call = NoCall
  /\ engs = <<>>
  /\ frags \in LaneFragments
  /\ segments = <<>>
  /\ hls = NoHlsConfig
  /\ loaders = [t \in ContextTypes |-> 0]
  /\ kLoaders = [t \in LoaderSlots |-> 0]
  /\ fLoaders = [t \in FragTypes |-> 0]
  /\ keyUrl = ""
  /\ keyData = ""
  /\ out = <<>>
  /\ threw = ""
  /\ op = Op("init", 0, 0)
  /\ rx = [MediaFragmentReceiver_constructor EXCEPT
             !.fragmentTracker = TRUE, !.media = TRUE, !.startPosition = 0]

\* the events that select, load and abandon fragments
NextReceiverLanes ==
  \/ StartLoad
  \/ \E f \in 1..RxFragCount : SelectFragment(f)
  \/ \E f \in 1..RxFragCount : OnFragLoaded(f)
  \/ \E f \in 1..RxFragCount : OnFragParsed(f)
  \/ FlushMainBuffer
  \/ OnBufferFlushed
  \/ OnFragLoadEmergencyAborted

SpecReceiverLanes == InitReceiverLanes /\ [][NextReceiverLanes]_vars

\* the guard of onFragLoaded for the event of fragment f
LoadedIsForCurrent(f) ==
  /\ rx.state = "FRAG_LOADING"
  /\ rx.fragCurrent # 0
  /\ frags[f].type = "main"
  /\ frags[f].level = frags[rx.fragCurrent].level
  /\ frags[f].sn = frags[rx.fragCurrent].sn

\* C36: a FRAG_LOADED event is acted on only in FRAG_LOADING and for a
\* fragment of type 'main' with the level and sequence number of the current
\* fragment, and then its statistics are stored and the machine leaves
\* FRAG_LOADING; any other FRAG_LOADED event changes neither the state nor the
\* current fragment nor the stored statistics and emits nothing.
C36_OnlyCurrentLoadActedOn ==
  [][ op'.name = "onFragLoaded"
      => IF LoadedIsForCurrent(op'.e)
           THEN rx'.stats = op'.e /\ rx'.state \in {"IDLE", "PARSING"}
           ELSE /\ rx'.state = rx.state
                /\ rx'.fragCurrent = rx.fragCurrent
                /\ rx'.stats = rx.stats
                /\ out' = <<>> ]_vars

\* while a main fragment is being loaded, FRAG_LOADED arrived for another
\* fragment of the main lane and was ignored
C36_Witness ==
  /\ op.name = "onFragLoaded"
  /\ rx.state = "FRAG_LOADING"
  /\ frags[op.e].type = "main"
  /\ op.e # rx.fragCurrent
  /\ ~IsCurrent(World, op.e)
  /\ rx.fragLoadError = 0
  /\ out = <<>>

\* ---------------------------------------------------------------------------
\* A load call on an engine whose request is in flight
\* ---------------------------------------------------------------------------

\* the step being taken is a load call on engine e that is rejected while the
\* request of an earlier load is in flight
RejectedLoad(e) ==
  /\ op'.name = "load" /\ op'.e = e
  /\ threw' = "Request already ongoing"
  /\ engs[e].xhr.exists /\ engs[e].xhr.live /\ engs[e].xhr.rs # 4

\* C37: a load call rejected because a request of the engine is in flight
\* leaves the context, options, callbacks and statistics of that request as
\* they were.
C37_RejectedLoadLeavesRequest ==
  [][ \A e \in 1..Len(engs) :
        RejectedLoad(e)
        => /\ engs'[e].context = engs[e].context
           /\ engs'[e].config = engs[e].config
           /\ engs'[e].callbacks = engs[e].callbacks
           /\ engs'[e].stats = engs[e].stats ]_vars

\* ---------------------------------------------------------------------------
\* A load call on an engine whose request has finished
\* ---------------------------------------------------------------------------

\* the request of engine en is over: no transfer in flight, no retry armed,
\* and onSuccess or onError was delivered or abort() was called
Finished(en) ==
  /\ ~(en.xhr.exists /\ en.xhr.live /\ en.xhr.rs # 4)
  /\ en.retryTimeout = NoTimer
  /\ en.obs.nSuccess > 0 \/ en.obs.nError > 0 \/ en.obs.aborted

\* C38: a load call on an engine whose request has finished (onSuccess or a
\* final onError delivered, or abort() called) starts a request: it is not
\* rejected with 'Request already ongoing'.
C38_IdleAfterFinish ==
  [][ \A e \in 1..Len(engs) :
        (op'.name = "load" /\ op'.e = e /\ Finished(engs[e]))
        => threw' # "Request already ongoing" ]_vars

\* ---------------------------------------------------------------------------
\* Times inside the list for which the search by program date time finds
\* nothing
\* ---------------------------------------------------------------------------

\* C39 as claimed: for a non-empty list and a finite time in [first
\* fragment's program date time, last fragment's end), the search by program
\* date time returns a fragment, whatever the tolerance.
C39_AlwaysFindsInRange ==
  (SearchedByPDT /\ ~OutsidePDT) => call.result.frag # NoFragment

\* C39: for a non-empty list and a finite time in [first fragment's program
\* date time, last fragment's end), the search by program date time returns a
\* fragment exactly when the tolerance-adjusted end of some fragment exceeds
\* the time; it does so for every such time when the tolerance is 0, and for
\* every time before the tolerance-adjusted end of the last fragment.
C39_FindsWhenSomeEndExceeds ==
  (SearchedByPDT /\ ~OutsidePDT) =>
    /\ call.result.threw = ""
    /\ call.result.frag # NoFragment <=> EndingAfterPDT # {}
    /\ call.maxFragLookUpTolerance = 0 => call.result.frag # NoFragment
    /\ call.pdtVal.value < AdjustedEndPDT(LastFragment, call.maxFragLookUpTolerance)
         => call.result.frag # NoFragment

\* a time inside the last of two fragments, within the tolerance of its
\* end, was searched with a tolerance and nothing was found
C39_Witness ==
  /\ SearchedByPDT /\ ~OutsidePDT
  /\ Len(call.fragments) = 2
  /\ call.maxFragLookUpTolerance > 0
  /\ call.pdtVal.value >= call.fragments[2].programDateTime
  /\ call.result = Returned(NoFragment)

\* ---------------------------------------------------------------------------
\* The search by position with a previous fragment
\* ---------------------------------------------------------------------------

\* C40: for every fragment list, the empty one included, and every previous
\* fragment, one outside the window of the list included, the search by
\* position does not fail, and it returns no fragment or a fragment of the
\* list for which the comparison with tolerance gives 0.
C40_SearchNeverFails ==
  (call.fn = "findFragmentByPTS" /\ call.done) =>
    /\ call.result.threw = ""
    /\ \/ call.result.frag = NoFragment
       \/ /\ call.result.frag \in 1..Len(call.fragments)
          /\ compareFragmentWithTolerance(call.fragments[call.result.frag],
                                          call.bufferEnd,
                                          call.maxFragLookUpTolerance) = 0

\* the same for the calls with a list that is not empty
C40_SearchOfNonEmptyList ==
  (call.fn = "findFragmentByPTS" /\ call.done /\ call.fragments # <<>>) =>
    /\ call.result.threw = ""
    /\ \/ call.result.frag = NoFragment
       \/ /\ call.result.frag \in 1..Len(call.fragments)
          /\ compareFragmentWithTolerance(call.fragments[call.result.frag],
                                          call.bufferEnd,
                                          call.maxFragLookUpTolerance) = 0

============================================================================
